---- MODULE Spec2Model ----
(***************************************************************************)
(* Staleness-determination engine of medicode/dismiss_if_stale.            *)
(*                                                                         *)
(* Texts (range-diff output, diffs) are sequences of one-character         *)
(* strings, so that parsing and normalisation are computed character by    *)
(* character as the regular expressions of the source do.                  *)
(***************************************************************************)
EXTENDS Integers, Sequences, FiniteSets, TLC

(***************************************************************************)
(* Bounds of the model.                                                    *)
(***************************************************************************)
\* longest commit-range comparison enumerated in full
MaxCommits == 1
\* length of the long comparisons: the shortest range for which git
\* right-aligns the index column over two characters is 9 commits
WideCommits == 9
\* longest raw output, in lines, handed to the parser on its own
MaxLines == 3
\* longest white-space-only output enumerated in full
MaxBlank == 3
\* reviews returned by one listing
MaxReviews == 2
\* timeline events returned by one listing
MaxEvents == 2
\* longest diff, in lines, handed to the normalizer on its own
MaxDiffLines == 2

(***************************************************************************)
(* Characters and character classes.                                       *)
(***************************************************************************)
Digit == {"0", "1", "2", "3", "4", "5", "6", "7", "8", "9"}

HexChar == Digit \cup {"a", "b", "c", "d", "e", "f"}

\* [0-9a-f-] of the record pattern
HexDash == HexChar \cup {"-"}

\* \s of a JavaScript regular expression, and what String.trim removes
WhiteSpace == {" ", "\t", "\n", "\r", "\f"}

\* [=!<>]
Markers == {"=", "!", "<", ">"}

\* line terminators after which ^ matches under the m flag
LineTerminator == {"\n", "\r"}

Max(a, b) == IF a >= b THEN a ELSE b

Range(f) == {f[k] : k \in DOMAIN f}

\* character at i, or "" past the end
At(s, i) == IF i >= 1 /\ i <= Len(s) THEN s[i] ELSE ""

\* first position >= i whose character is not in class (Len(s)+1 if none):
\* the end of a greedy class* started at i
RECURSIVE SkipClass(_, _, _)
SkipClass(s, i, class) ==
    IF i <= Len(s) /\ s[i] \in class THEN SkipClass(s, i + 1, class) ELSE i

\* does text t occur in s at position i
StartsAt(s, i, t) ==
    /\ i + Len(t) - 1 <= Len(s)
    /\ \A k \in 1..Len(t) : s[i + k - 1] = t[k]

\* position of the first "\n" at or after i (Len(s)+1 if none)
RECURSIVE NewlineFrom(_, _)
NewlineFrom(s, i) ==
    IF i <= Len(s) /\ s[i] # "\n" THEN NewlineFrom(s, i + 1) ELSE i

\* String.prototype.split('\n'), from position i on
RECURSIVE SplitFrom(_, _)
SplitFrom(s, i) ==
    LET j == NewlineFrom(s, i)
    IN IF j > Len(s) THEN <<SubSeq(s, i, Len(s))>>
       ELSE <<SubSeq(s, i, j - 1)>> \o SplitFrom(s, j + 1)

SplitLines(s) == SplitFrom(s, 1)

\* output.trim() === ''
TrimIsEmpty(s) == \A k \in 1..Len(s) : s[k] \in WhiteSpace

\* decimal digits of a natural number
RECURSIVE ToDigits(_)
ToDigits(n) ==
    LET d == CHOOSE c \in Digit :
                 c = <<"0", "1", "2", "3", "4", "5", "6", "7", "8", "9">>[(n % 10) + 1]
    IN IF n < 10 THEN <<d>> ELSE Append(ToDigits(n \div 10), d)

(***************************************************************************)
(* RangeDiffClassifier: parseRangeDiffOutput of src/src/range-diff.ts.     *)
(***************************************************************************)
\* only empty lines skipped
SkippedLine_OnlyEmpty(line) == line = <<>>

\* line.startsWith(' ') || line.startsWith('\t'), or the empty line
SkippedLine(line) == line = <<>> \/ line[1] = " " \/ line[1] = "\t"

\* -?(\d+)?: started at i; the position after the colon, or 0 if no match
IndexColon(line, i) ==
    LET p == IF At(line, i) = "-" THEN i + 1 ELSE i
        q == SkipClass(line, p, Digit)
    IN IF At(line, q) = ":" THEN q + 1 ELSE 0

\* line.match(/^\s*-?(\d+)?:\s+[0-9a-f-]+\s+([=!<>])\s+-?(\d+)?:/):
\* the captured marker, or "" when the line does not match.  Every class
\* is followed by a disjoint one, so the greedy scan needs no backtracking.
MarkerMatch(line) ==
    LET p1 == SkipClass(line, 1, WhiteSpace)
        p2 == IndexColon(line, p1)
        p3 == SkipClass(line, p2, WhiteSpace)
        p4 == SkipClass(line, p3, HexDash)
        p5 == SkipClass(line, p4, WhiteSpace)
        p6 == SkipClass(line, p5 + 1, WhiteSpace)
    IN IF /\ p2 > 0
          /\ p3 > p2
          /\ p4 > p3
          /\ p5 > p4
          /\ At(line, p5) \in Markers
          /\ p6 > p5 + 1
          /\ IndexColon(line, p6) > 0
       THEN line[p5]
       ELSE ""

NoCounts == [identical |-> 0, modified |-> 0, added |-> 0, removed |-> 0]

\* a line without a marker counted as a modified commit
Tally_OtherModified(counts, marker) ==
    CASE marker = "=" -> [counts EXCEPT !.identical = @ + 1]
      [] marker = ">" -> [counts EXCEPT !.added = @ + 1]
      [] marker = "<" -> [counts EXCEPT !.removed = @ + 1]
      [] OTHER -> [counts EXCEPT !.modified = @ + 1]

\* the switch on the marker
Tally(counts, marker) ==
    CASE marker = "=" -> [counts EXCEPT !.identical = @ + 1]
      [] marker = "!" -> [counts EXCEPT !.modified = @ + 1]
      [] marker = ">" -> [counts EXCEPT !.added = @ + 1]
      [] marker = "<" -> [counts EXCEPT !.removed = @ + 1]
      [] OTHER -> counts

\* the for loop over the lines
RECURSIVE CountLines(_, _, _)
CountLines(lines, i, counts) ==
    IF i > Len(lines) THEN counts
    ELSE IF SkippedLine(lines[i]) THEN CountLines(lines, i + 1, counts)
    ELSE CountLines(lines, i + 1, Tally(counts, MarkerMatch(lines[i])))

\* removed commits forgotten
HasChanges_NoRemoved(counts) == counts.modified > 0 \/ counts.added > 0

HasChanges(counts) ==
    counts.modified > 0 \/ counts.added > 0 \/ counts.removed > 0

\* parts.join(', ')
RECURSIVE JoinParts(_)
JoinParts(parts) ==
    IF parts = <<>> THEN <<>>
    ELSE IF Len(parts) = 1 THEN parts[1]
    ELSE parts[1] \o <<", ">> \o JoinParts(SubSeq(parts, 2, Len(parts)))

\* `${n} <what>`
Part(n, what) == ToDigits(n) \o <<what>>

\* the categories listed in the order removed, added, modified
ChangedParts_RemovedFirst(counts) ==
    (IF counts.removed > 0 THEN <<Part(counts.removed, " removed")>> ELSE <<>>)
    \o (IF counts.added > 0 THEN <<Part(counts.added, " added")>> ELSE <<>>)
    \o (IF counts.modified > 0 THEN <<Part(counts.modified, " modified")>> ELSE <<>>)

ChangedParts(counts) ==
    (IF counts.modified > 0 THEN <<Part(counts.modified, " modified")>> ELSE <<>>)
    \o (IF counts.added > 0 THEN <<Part(counts.added, " added")>> ELSE <<>>)
    \o (IF counts.removed > 0 THEN <<Part(counts.removed, " removed")>> ELSE <<>>)

\* the summary in lower case
NoChangesDetected_Lower == <<"no changes detected">>

NoChangesDetected == <<"No changes detected">>

Summary(counts) ==
    IF HasChanges(counts)
    THEN <<"Commits changed: ">> \o JoinParts(ChangedParts(counts))
    ELSE IF counts.identical > 0
         THEN Part(counts.identical, " identical commit(s)")
         ELSE NoChangesDetected

parseRangeDiffOutput(output) ==
    IF output = <<>> \/ TrimIsEmpty(output)
    THEN [isStale |-> FALSE, summary |-> NoChangesDetected]
    ELSE LET counts == CountLines(SplitLines(output), 1, NoCounts)
         IN [isStale |-> HasChanges(counts), summary |-> Summary(counts)]

(***************************************************************************)
(* DiffNormalizer: normalizeDiff of src/src/dismiss-if-stale.ts.           *)
(***************************************************************************)
IndexToken == <<"i", "n", "d", "e", "x", " ">>

DotDot == <<".", ".">>

\* /index [0-9a-f]+\.\.[0-9a-f]+/ matched at position i: the position after
\* the match, or 0 when there is none
IndexMatchEnd(s, i) ==
    LET h1 == SkipClass(s, i + Len(IndexToken), HexChar)
        h2 == SkipClass(s, h1 + Len(DotDot), HexChar)
    IN IF /\ StartsAt(s, i, IndexToken)
          /\ h1 > i + Len(IndexToken)
          /\ StartsAt(s, h1, DotDot)
          /\ h2 > h1 + Len(DotDot)
       THEN h2
       ELSE 0

\* ^ under the m flag: the start of the text or just after a line terminator
AtLineStart(s, i) == i = 1 \/ s[i - 1] \in LineTerminator

\* the global replace, scanning on from the end of each match
RECURSIVE NormalizeFrom(_, _)
NormalizeFrom(s, i) ==
    IF i > Len(s) THEN <<>>
    ELSE IF AtLineStart(s, i) /\ IndexMatchEnd(s, i) > 0
         THEN NormalizeFrom(s, IndexMatchEnd(s, i))
         ELSE <<s[i]>> \o NormalizeFrom(s, i + 1)

\* diff.replace(/^index [0-9a-f]+\.\.[0-9a-f]+/gm, '')
normalizeDiff(diff) == NormalizeFrom(diff, 1)

(***************************************************************************)
(* What `git range-diff --no-color` prints for a comparison: one header    *)
(* line per commit pair, `<i>: <sha> <marker> <j>: <sha> <subject>`, the   *)
(* index columns right-aligned to the width of 1 + the longer range, and,  *)
(* under a modified pair, its diff indented by four spaces.                *)
(***************************************************************************)
\* a commit pair of the comparison: its relation and the detail printed
\* under it
DetailKinds == {"hunk", "recordlike"}

Entries ==
    {[marker |-> m, detail |-> "none"] : m \in Markers \ {"!"}}
    \cup {[marker |-> "!", detail |-> d] : d \in DetailKinds}

Sha == <<"a", "1", "f">>

Dashes == <<"-", "-", "-">>

\* number of commit pairs among the first k that have a commit on a side
RECURSIVE SideCount(_, _, _)
SideCount(c, k, absent) ==
    IF k = 0 THEN 0
    ELSE SideCount(c, k - 1, absent) + (IF c[k].marker = absent THEN 0 ELSE 1)

\* %*d and %*s: right-aligned in width columns
PadLeft(t, width) == [k \in 1..(Max(width, Len(t)) - Len(t)) |-> " "] \o t

DecimalWidth(n) == Len(ToDigits(n))

PatchNoWidth(c) ==
    DecimalWidth(1 + Max(SideCount(c, Len(c), ">"), SideCount(c, Len(c), "<")))

DetailLines(kind) ==
    CASE kind = "hunk" ->
           <<" ", " ", " ", " ", "@", "@", " ", "m", "s", "g", "\n",
             " ", " ", " ", " ", " ", "-", "o", "l", "d", "\n",
             " ", " ", " ", " ", " ", "+", "n", "e", "w", "\n">>
      [] kind = "recordlike" ->
           <<" ", " ", " ", " ", "@", "@", " ", "m", "s", "g", "\n",
             " ", " ", " ", " ", " ", "+", "1", ":", " ", "a", "b", " ", ">",
             " ", "1", ":", " ", "c", "d", "\n",
             "\n",
             "\t", "2", ":", " ", "a", "b", " ", "<", " ", "-", ":", " ", "-",
             "-", "\n">>
      [] OTHER -> <<>>

\* the header line of pair k and what follows it
PairLines(c, k) ==
    LET e == c[k]
        w == PatchNoWidth(c)
        left == IF e.marker = ">"
                THEN PadLeft(<<"-">>, w) \o <<":", " ", " ">> \o Dashes
                ELSE PadLeft(ToDigits(SideCount(c, k, ">")), w)
                     \o <<":", " ", " ">> \o Sha
        right == IF e.marker = "<"
                 THEN PadLeft(<<"-">>, w) \o <<":", " ", " ">> \o Dashes
                 ELSE PadLeft(ToDigits(SideCount(c, k, "<")), w)
                      \o <<":", " ", " ">> \o Sha
    IN left \o <<" ", e.marker, " ">> \o right \o <<" ", "s", "\n">>
       \o DetailLines(e.detail)

RECURSIVE RenderFrom(_, _)
RenderFrom(c, k) ==
    IF k > Len(c) THEN <<>> ELSE PairLines(c, k) \o RenderFrom(c, k + 1)

RenderComparison(c) == RenderFrom(c, 1)

(***************************************************************************)
(* Values the collaborators can hand to one run.                           *)
(***************************************************************************)
\* all sequences over S of length 0..n
SeqUpTo(S, n) == UNION {[1..k -> S] : k \in 0..n}

\* comparisons enumerated in full, and long ones (all pairs identical but
\* one, which is first or last) for which git pads the index column
Comparisons ==
    SeqUpTo(Entries, MaxCommits)
    \cup {[k \in 1..WideCommits |-> IF k = p THEN e ELSE [marker |-> "=", detail |-> "none"]] :
             e \in Entries, p \in {1, WideCommits}}

\* a line in no known format: "warn: x\n"
UnknownLine == <<"w", "a", "r", "n", ":", " ", "x", "\n">>

\* outputs none of whose lines has the shape of a commit record:
\*   "warn: x\n", "1: zz ! 1: a1\n" (no hex id), "1: a1 ~ 1: a1" (no
\*   marker), "a1 = b2\n\nx" (no index)
UnknownOutputs ==
    { UnknownLine,
      <<"1", ":", " ", "z", "z", " ", "!", " ", "1", ":", " ", "a", "1", "\n">>,
      <<"1", ":", " ", "a", "1", " ", "~", " ", "1", ":", " ", "a", "1">>,
      <<"a", "1", " ", "=", " ", "b", "2", "\n", "\n", "x">> }

\* outputs that are no rendering of a comparison: every text of white
\* space up to MaxBlank characters, and text in no known format
OddOutputs ==
    (SeqUpTo({" ", "\t", "\n", "\r"}, MaxBlank) \ {<<>>})
    \cup { <<" ", " ", " ", "\n", " ", " ">> }
    \cup UnknownOutputs

\* a successful git range-diff: the comparison it made and what it printed
RangeDiffRuns ==
    {[comparison |-> c, stdout |-> RenderComparison(c)] : c \in Comparisons}
    \cup {[comparison |-> c, stdout |-> UnknownLine \o RenderComparison(c)] :
             c \in SeqUpTo(Entries, MaxCommits) \ {<<>>}}
    \cup {[comparison |-> <<>>, stdout |-> o] : o \in OddOutputs}

\* diff texts returned by the compare API, the cache and git diff:
\*   "", "index a1..b2\n+x", "index c3..d4\n+x", "index a1..b2\n+y"
SampleDiff == IndexToken \o <<"a", "1", ".", ".", "b", "2", "\n", "+", "x">>

DiffTexts ==
    { <<>>,
      SampleDiff,
      IndexToken \o <<"c", "3", ".", ".", "d", "4", "\n", "+", "x">>,
      IndexToken \o <<"a", "1", ".", ".", "b", "2", "\n", "+", "y">> }

\* string | null
Some(t) == [some |-> TRUE, val |-> t]

Null == [some |-> FALSE, val |-> <<>>]

\* JavaScript truthiness of a string | null: null and '' are falsy
Truthy(d) == d.some /\ d.val # <<>>

\* the cached ApprovalMetadata file as tryRangeDiffCheck finds it
MetadataFiles ==
    {[kind |-> k, version |-> 0, approved_sha |-> FALSE, merge_base_sha |-> FALSE] :
        k \in {"emptyPath", "absent", "unparseable", "jsonNull"}}
    \cup [kind : {"object"}, version : {0, 1, 2},
          approved_sha : BOOLEAN, merge_base_sha : BOOLEAN]

NoMetadata ==
    [kind |-> "unread", version |-> 0, approved_sha |-> FALSE, merge_base_sha |-> FALSE]

Events == {"opened", "synchronize", "edited", "closed"}

\* payload.changes.base of an edited event: absent, present without
\* sha.from, present with the prior base SHA
BaseChanges == {"absent", "noFrom", "from"}

MsgUnableReviewed ==
    "Unable to get the most recently reviewed diff. Pessimistically dismissing stale reviews."

MsgCodeChanged == "Code has changed, dismissing stale reviews."

\* the error compareCommits throws on a response that is not 200
CompareFailed == "Got status 500 from GitHub API."

\* the error it throws on a response whose data is no string
CompareNotString == "Response from GitHub API was not a string."

MsgTwoDotFailed ==
    "Unable to compute two-dot diff (too large or failed). Pessimistically dismissing stale reviews."

(***************************************************************************)
(* State of one run of dismissIfStale.                                     *)
(***************************************************************************)
VARIABLES
    pc,               \* position in the run
    action,           \* github.context.payload.action
    changesBase,      \* github.context.payload.changes.base
    payload,          \* pull_request and repository of the payload
    diffs_dir,        \* whether the diffs_directory input is set
    rebaseable,       \* payload.pull_request.rebaseable
    dry_run,          \* the dry_run argument of the evaluator that has one
    workingCopy,      \* repo_path: "absent", "cloned" or "fetched"
    metadata,         \* the metadata file tryRangeDiffCheck found
    rdStatus,         \* how the git range-diff process ended
    rdComparison,     \* the comparison git range-diff made
    rdStdout,         \* what it printed
    rdParsed,         \* parseRangeDiffOutput of it
    rangeDiffResult,  \* 'not_stale' | 'stale' | 'fallback'
    most_recent_review, \* last approved review of the listing
    reviewed_diff,    \* string | null
    current_diff,     \* string
    twoDot,           \* result of genTwoDotDiff: string | null
    msg,              \* the dismissal message being composed
    calls,            \* collaborator calls made so far, in order
    dismissed,        \* reviews for which a dismissal request was issued
    dismissMsg,       \* message handed to dismissApprovals
    requests,         \* the dismissal requests: pending, fulfilled or rejected
    listed,           \* states of the reviews dismissApprovals found listed
    sent,             \* the dismissReview requests issued: review and message
    outcome,          \* how the run ended
    error,            \* message of the error that ended it
    pLines,           \* lines of the text handed to the parser on its own
    pInput,           \* that text
    pResult,          \* the parser's result for it
    rReviews,         \* reviews handed to getMostRecentlyReviewedDiff on its own
    rEvents,          \* events handed to it
    rResponse,        \* what the historical comparison gives: string | null
    rResult,          \* what it returns or throws
    wReviews,         \* the reviews of the pull request as the platform lists them
    wCache,           \* keys under which an approved diff was saved
    wSeen,            \* the listing the check-for-approvals step got
    approved_sha,     \* output approved_sha of that step
    review_id,        \* output review_id of that step
    wRestored,        \* key of the cache restore, when it ran
    wSteps,           \* steps of the dismiss job that ran, in order
    nLines,           \* lines of the two diffs handed to normalizeDiff on its own
    nResult,          \* normalizeDiff of them, and of the first result again
    diffRequests,     \* the commits named by the calls of GitRepo.diff, in order
    mode,             \* the input mode of run() taken on its own
    token,            \* its input token
    raised            \* what was thrown inside the try of run(), if anything

vars ==
    <<pc, action, changesBase, payload, diffs_dir, rebaseable, dry_run, workingCopy, metadata, rdStatus,
      rdComparison, rdStdout, rdParsed, rangeDiffResult, most_recent_review,
      reviewed_diff, current_diff, twoDot, msg, calls, dismissed, dismissMsg,
      requests, listed, sent, outcome, error, pLines, pInput, pResult, rReviews, rEvents, rResponse,
      rResult, wReviews, wCache, wSeen, approved_sha, review_id, wRestored,
      wSteps, nLines, nResult, diffRequests, mode, token, raised>>

eventVars == <<action, changesBase, payload, diffs_dir, rebaseable, dry_run>>

fastPathVars == <<metadata, rdStatus, rdComparison, rdStdout, rdParsed, rangeDiffResult>>

diffVars == <<most_recent_review, reviewed_diff, current_diff, twoDot, msg>>

dismissVars == <<dismissed, dismissMsg, requests, listed, sent>>

reviewedVars == <<rReviews, rEvents, rResponse, rResult>>

\* the platform's reviews and the cache, and the steps of the dismiss job
platformVars == <<wReviews, wCache>>

jobVars == <<wSeen, approved_sha, review_id, wRestored, wSteps>>

normalizeVars == <<nLines, nResult>>

\* inputs and results of the functions specified on their own
functionVars ==
    <<pLines, pInput, pResult, reviewedVars, platformVars, jobVars, normalizeVars>>

\* what the GitRepo of the evaluator with rebase was asked for
repoVars == <<diffRequests>>

\* the inputs run() dispatches on and what its catch received
runVars == <<mode, token, raised>>

\* nothing thrown
NoneRaised == [kind |-> "none", message |-> ""]

\* what the steps of the run above leave alone
parseVars == <<functionVars, repoVars, runVars>>

\* a function's result: a value returned, or an error thrown
Returned(value) == [thrown |-> FALSE, error |-> "", val |-> value]

Thrown(message) == [thrown |-> TRUE, error |-> message, val |-> [some |-> FALSE, val |-> <<>>]]

\* an output of a step that was not set
Unset == <<"u", "n", "s", "e", "t">>

NoNormalized == [first |-> <<>>, again |-> <<>>, second |-> <<>>]

NoParsed == [isStale |-> FALSE, summary |-> <<>>]

NoReview == [submitted_at |-> 0, commit_id |-> FALSE]

Payloads == [pull_request : BOOLEAN, repository : {"absent", "unnamed", "named"}]

Init ==
    /\ pc = "start"
    /\ action \in Events
    /\ changesBase \in BaseChanges
    /\ action # "edited" => changesBase = "absent"
    /\ payload \in Payloads
    /\ diffs_dir \in BOOLEAN
    /\ rebaseable = FALSE
    /\ dry_run = FALSE
    /\ workingCopy \in {"absent", "cloned"}
    /\ metadata = NoMetadata
    /\ rdStatus = "notRun"
    /\ rdComparison = <<>>
    /\ rdStdout = <<>>
    /\ rdParsed = NoParsed
    /\ rangeDiffResult = "none"
    /\ most_recent_review = NoReview
    /\ reviewed_diff = Null
    /\ current_diff = <<>>
    /\ twoDot = Null
    /\ msg = ""
    /\ calls = <<>>
    /\ dismissed = {}
    /\ dismissMsg = ""
    /\ requests = <<>>
    /\ listed = <<>>
    /\ sent = <<>>
    /\ outcome = "running"
    /\ error = ""
    /\ pLines = <<>>
    /\ pInput = <<>>
    /\ pResult = NoParsed
    /\ rReviews = <<>>
    /\ rEvents = <<>>
    /\ rResponse = Null
    /\ rResult = Returned(Null)
    /\ wReviews = <<>>
    /\ wCache = {}
    /\ wSeen = <<>>
    /\ approved_sha = Unset
    /\ review_id = Unset
    /\ wRestored = Null
    /\ wSteps = <<>>
    /\ nLines = <<<<>>, <<>>>>
    /\ nResult = NoNormalized
    /\ diffRequests = <<>>
    /\ mode = "dismiss-stale-reviews"
    /\ token = "token"
    /\ raised = NoneRaised

\* return from dismissIfStale
Return(result) ==
    /\ pc' = "done"
    /\ outcome' = result
    /\ error' = ""

\* an error thrown out of dismissIfStale, reported by run() with setFailed
Throw(message) ==
    /\ pc' = "done"
    /\ outcome' = "Failed"
    /\ error' = message

Goto(next) ==
    /\ pc' = next
    /\ UNCHANGED <<outcome, error>>

Call(names) == calls' = calls \o names

\* every edited event taken as relevant
Irrelevant_AnyEdit == action # "synchronize" /\ action # "edited"

\* the trigger filter: neither synchronize nor an edited event that
\* carries changes.base.sha.from
Irrelevant ==
    /\ action # "synchronize"
    /\ (action # "edited" \/ changesBase = "absent" \/ changesBase # "from")

\* the payload validated before the filter
TriggerFilter_ValidateFirst ==
    /\ pc = "start"
    /\ IF ~payload.pull_request
       THEN Throw("This action must be run on a pull request.")
       ELSE IF Irrelevant THEN Return("Skip") ELSE Goto("construct")
    /\ UNCHANGED <<eventVars, workingCopy, fastPathVars, diffVars, calls,
                   dismissVars, parseVars>>

TriggerFilter ==
    /\ pc = "start"
    /\ IF Irrelevant THEN Return("Skip") ELSE Goto("construct")
    /\ UNCHANGED <<eventVars, workingCopy, fastPathVars, diffVars, calls,
                   dismissVars, parseVars>>

\* a repository without a full name let through
Construct_Unnamed ==
    /\ pc = "construct"
    /\ IF payload.repository = "absent" \/ ~payload.pull_request
       THEN Throw("This action must be run on a pull request.")
       ELSE Goto("loadMetadata")
    /\ UNCHANGED <<eventVars, workingCopy, fastPathVars, diffVars, calls,
                   dismissVars, parseVars>>

\* new PullRequest(token), core.getInput('diffs_directory') and the check
\* of payload.pull_request
Construct ==
    /\ pc = "construct"
    /\ IF payload.repository = "absent" \/ ~payload.pull_request
       THEN Throw("This action must be run on a pull request.")
       ELSE IF payload.repository = "unnamed"
            THEN Throw("Unable to determine repository name.")
            ELSE Goto("loadMetadata")
    /\ UNCHANGED <<eventVars, workingCopy, fastPathVars, diffVars, calls,
                   dismissVars, parseVars>>

\* tryRangeDiffCheck returns 'fallback'
Fallback ==
    /\ rangeDiffResult' = "fallback"
    /\ Goto("fastPathReturn")

\* tryRangeDiffCheck: load and validate the cached metadata
LoadMetadata ==
    /\ pc = "loadMetadata"
    /\ \E file \in MetadataFiles :
        /\ metadata' = file
        /\ CASE file.kind = "emptyPath" ->
                   Fallback /\ UNCHANGED calls
             [] file.kind = "absent" ->
                   Fallback /\ Call(<<"existsMetadata">>)
             [] file.kind = "unparseable" ->
                   Fallback /\ Call(<<"existsMetadata", "readMetadata">>)
             [] file.kind = "jsonNull" ->
                   /\ Call(<<"existsMetadata", "readMetadata">>)
                   /\ Throw("Cannot read properties of null (reading 'version')")
                   /\ UNCHANGED rangeDiffResult
             [] OTHER ->
                   /\ Call(<<"existsMetadata", "readMetadata">>)
                   /\ IF \/ file.version # 1
                         \/ ~file.approved_sha
                         \/ ~file.merge_base_sha
                      THEN Fallback
                      ELSE Goto("getMergeBase") /\ UNCHANGED rangeDiffResult
    /\ UNCHANGED <<eventVars, workingCopy, rdStatus, rdComparison, rdStdout,
                   rdParsed, diffVars, dismissVars, parseVars>>

\* an unresolved merge base asked for again
GetMergeBase_Retry ==
    /\ pc = "getMergeBase"
    /\ Call(<<"getMergeBase">>)
    /\ \E resolved \in BOOLEAN :
        IF resolved
        THEN Goto("runRangeDiff")
        ELSE Goto("getMergeBase")
    /\ UNCHANGED <<eventVars, workingCopy, metadata, rdStatus, rdComparison,
                   rdStdout, rdParsed, rangeDiffResult, diffVars, dismissVars,
                   parseVars>>

\* tryRangeDiffCheck: pull_request.getMergeBase(base_ref, current_head)
GetMergeBase ==
    /\ pc = "getMergeBase"
    /\ Call(<<"getMergeBase">>)
    /\ \E resolved \in BOOLEAN :
        IF resolved
        THEN Goto("runRangeDiff") /\ UNCHANGED rangeDiffResult
        ELSE Fallback
    /\ UNCHANGED <<eventVars, workingCopy, metadata, rdStatus, rdComparison,
                   rdStdout, rdParsed, diffVars, dismissVars, parseVars>>

\* how spawnSync('git', ['range-diff', ...]) can end
RangeDiffExits == {"spawnError", "ENOBUFS", "nonZero", "ok"}

\* the verdict inverted
CheckResult_Inverted(result) == IF result.isStale THEN "not_stale" ELSE "stale"

\* what tryRangeDiffCheck makes of the classifier's verdict
CheckResult(result) == IF result.isStale THEN "stale" ELSE "not_stale"

\* tryRangeDiffCheck: runRangeDiff, then parseRangeDiffOutput
RunRangeDiff ==
    /\ pc = "runRangeDiff"
    /\ Call(<<"rangeDiff">>)
    /\ \E exit \in RangeDiffExits :
        /\ exit = "ok" => workingCopy # "absent"
        /\ rdStatus' = exit
        /\ IF exit = "ok"
           THEN \E run \in RangeDiffRuns :
                   /\ rdComparison' = run.comparison
                   /\ rdStdout' = run.stdout
                   /\ rdParsed' = parseRangeDiffOutput(run.stdout)
                   /\ rangeDiffResult' = CheckResult(rdParsed')
                   /\ Goto("fastPathReturn")
           ELSE /\ Fallback
                /\ UNCHANGED <<rdComparison, rdStdout, rdParsed>>
    /\ UNCHANGED <<eventVars, workingCopy, metadata, diffVars, dismissVars, parseVars>>

\* the locals of tryRangeDiffCheck that nothing reads after it returned
\* 'stale' or 'fallback': the output of git range-diff and its parse
DropRangeDiffOutput ==
    /\ rdComparison' = <<>>
    /\ rdStdout' = <<>>
    /\ rdParsed' = NoParsed

\* dismissing as soon as the range-diff reports changes
FastPathReturn_DismissOnStale ==
    /\ pc = "fastPathReturn"
    /\ IF rangeDiffResult = "not_stale"
       THEN /\ Return("FastPathNotStale")
            /\ UNCHANGED <<calls, dismissMsg, rdComparison, rdStdout, rdParsed>>
       ELSE IF rangeDiffResult = "stale"
            THEN /\ Call(<<"dismissApprovals">>)
                 /\ dismissMsg' = MsgCodeChanged
                 /\ Goto("dismissApprovals")
                 /\ DropRangeDiffOutput
            ELSE /\ Goto("genReviewedDiff")
                 /\ DropRangeDiffOutput
                 /\ UNCHANGED <<calls, dismissMsg>>
    /\ UNCHANGED <<eventVars, workingCopy, metadata, rdStatus, rangeDiffResult,
                   diffVars, dismissed, requests, listed, sent, parseVars>>

\* dismissIfStale: return early when the range-diff shows no changes
FastPathReturn ==
    /\ pc = "fastPathReturn"
    /\ IF rangeDiffResult = "not_stale"
       THEN /\ Return("FastPathNotStale")
            /\ UNCHANGED <<rdComparison, rdStdout, rdParsed>>
       ELSE /\ Goto("genReviewedDiff")
            /\ DropRangeDiffOutput
    /\ UNCHANGED <<eventVars, workingCopy, metadata, rdStatus, rangeDiffResult,
                   diffVars, calls, dismissVars, parseVars>>

(***************************************************************************)
(* Reviewed-diff reconstruction: genReviewedDiff and                       *)
(* PullRequest.getMostRecentlyReviewedDiff.                                *)
(***************************************************************************)
\* submitted_at and created_at: 0 stands for a missing timestamp
Times == {0, 1, 2}

ReviewStates == {"APPROVED", "COMMENTED"}

Reviews == [state : ReviewStates, submitted_at : Times, commit_id : BOOLEAN]

TimelineEvents == [created_at : Times, event : {"base_ref_changed", "labeled"}]

\* the events of a listing are in chronological order
Chronological(events) ==
    \A i, j \in DOMAIN events :
        (i < j /\ events[i].created_at # 0 /\ events[j].created_at # 0)
            => events[i].created_at <= events[j].created_at

\* what getEvents can return
Timelines == {events \in SeqUpTo(TimelineEvents, MaxEvents) : Chronological(events)}

\* reviews.filter(review => review.state === 'APPROVED')
RECURSIVE getApprovedReviews(_)
getApprovedReviews(reviews) ==
    IF reviews = <<>> THEN <<>>
    ELSE (IF reviews[1].state = "APPROVED" THEN <<reviews[1]>> ELSE <<>>)
         \o getApprovedReviews(SubSeq(reviews, 2, Len(reviews)))

\* the review history consulted although the cached diff was read
GenReviewedDiff_Reconstruct ==
    /\ pc = "genReviewedDiff"
    /\ \E cached \in {Null} \cup {Some(t) : t \in DiffTexts} :
        /\ Call(IF cached.some THEN <<"existsCachedDiff", "readCachedDiff">>
                ELSE <<"existsCachedDiff">>)
        /\ reviewed_diff' = cached
        /\ Goto("listReviews")
    /\ UNCHANGED <<eventVars, workingCopy, fastPathVars, most_recent_review,
                   current_diff, twoDot, msg, dismissVars, parseVars>>

\* dismissIfStale: genReviewedDiff, the cached diff
GenReviewedDiff ==
    /\ pc = "genReviewedDiff"
    /\ \E cached \in {Null} \cup {Some(t) : t \in DiffTexts} :
        IF cached.some
        THEN /\ Call(<<"existsCachedDiff", "readCachedDiff">>)
             /\ reviewed_diff' = cached
             /\ Goto("normalizeReviewed")
        ELSE /\ Call(<<"existsCachedDiff">>)
             /\ UNCHANGED reviewed_diff
             /\ Goto("listReviews")
    /\ UNCHANGED <<eventVars, workingCopy, fastPathVars, most_recent_review,
                   current_diff, twoDot, msg, dismissVars, parseVars>>

\* getMostRecentlyReviewedDiff: the most recent approval and its time
ListReviews ==
    /\ pc = "listReviews"
    /\ Call(<<"listReviews">>)
    /\ \/ /\ Throw("listReviews failed")
          /\ UNCHANGED most_recent_review
       \/ \E reviews \in SeqUpTo(Reviews, MaxReviews) :
            LET approved_reviews == getApprovedReviews(reviews)
            IN IF approved_reviews = <<>>
               THEN /\ Throw("Cannot read properties of undefined (reading 'submitted_at')")
                    /\ UNCHANGED most_recent_review
               ELSE LET latest == approved_reviews[Len(approved_reviews)]
                    IN /\ most_recent_review' =
                            [submitted_at |-> latest.submitted_at,
                             commit_id |-> latest.commit_id]
                       /\ IF latest.submitted_at = 0
                          THEN Throw("Unable to determine time of approval.")
                          ELSE Goto("scanEvents")
    /\ UNCHANGED <<eventVars, workingCopy, fastPathVars, reviewed_diff, current_diff,
                   twoDot, msg, dismissVars, parseVars>>

\* the loop over the events from the newest backwards: "throw" for an
\* event without created_at, "null" for a base change at or after the
\* approval, "compare" otherwise
RECURSIVE ScanFrom(_, _, _)
ScanFrom(events, i, time_of_approval) ==
    IF i = 0 THEN "compare"
    ELSE IF events[i].created_at = 0 THEN "throw"
    ELSE IF events[i].created_at < time_of_approval THEN "compare"
    ELSE IF events[i].event = "base_ref_changed" THEN "null"
    ELSE ScanFrom(events, i - 1, time_of_approval)

\* getMostRecentlyReviewedDiff: was the base branch changed since the approval
ScanEvents ==
    /\ pc = "scanEvents"
    /\ Call(<<"listEvents">>)
    /\ \/ /\ Throw("listEvents failed")
          /\ UNCHANGED reviewed_diff
       \/ \E events \in Timelines :
            LET found == ScanFrom(events, Len(events), most_recent_review.submitted_at)
            IN CASE found = "throw" ->
                      /\ Throw("Unable to determine time of event.")
                      /\ UNCHANGED reviewed_diff
                 [] found = "null" ->
                      /\ reviewed_diff' = Null
                      /\ Goto("normalizeReviewed")
                 [] OTHER ->
                      /\ UNCHANGED reviewed_diff
                      /\ Goto("compareReviewed")
    /\ UNCHANGED <<eventVars, workingCopy, fastPathVars, most_recent_review,
                   current_diff, twoDot, msg, dismissVars, parseVars>>

\* getMostRecentlyReviewedDiff: compareCommits(base_branch, commit_id)
CompareReviewed ==
    /\ pc = "compareReviewed"
    /\ IF ~most_recent_review.commit_id
       THEN /\ Throw("Unable to determine commit ID of review.")
            /\ UNCHANGED <<calls, reviewed_diff>>
       ELSE /\ Call(<<"compareReviewed">>)
            /\ \E response \in {Null} \cup {Some(t) : t \in DiffTexts} :
                 reviewed_diff' = response
            /\ Goto("normalizeReviewed")
    /\ UNCHANGED <<eventVars, workingCopy, fastPathVars, most_recent_review,
                   current_diff, twoDot, msg, dismissVars, parseVars>>

\* the base branch changed only when an event is later than the approval
ScanNull_StrictlyAfter(events, time_of_approval) ==
    \E i \in DOMAIN events :
        /\ events[i].event = "base_ref_changed"
        /\ events[i].created_at > time_of_approval

\* whether the scan returns null, for a timeline it does not throw on
ScanNull(events, time_of_approval) ==
    ScanFrom(events, Len(events), time_of_approval) = "null"

\* getMostRecentlyReviewedDiff as a function of what the listings give and
\* of what the historical comparison gives (null when it fails)
getMostRecentlyReviewedDiff(reviews, events, response) ==
    LET approved_reviews == getApprovedReviews(reviews)
        latest == approved_reviews[Len(approved_reviews)]
    IN IF approved_reviews = <<>>
       THEN Thrown("Cannot read properties of undefined (reading 'submitted_at')")
       ELSE IF latest.submitted_at = 0
       THEN Thrown("Unable to determine time of approval.")
       ELSE IF ScanFrom(events, Len(events), latest.submitted_at) = "throw"
       THEN Thrown("Unable to determine time of event.")
       ELSE IF ScanNull(events, latest.submitted_at)
       THEN Returned(Null)
       ELSE IF ~latest.commit_id
       THEN Thrown("Unable to determine commit ID of review.")
       ELSE Returned(response)

(***************************************************************************)
(* dismissIfStale from the reviewed diff to the verdict.                   *)
(***************************************************************************)
\* the two-dot comparison entered without the three-dot diff
NormalizeReviewed_SkipThreeDot ==
    /\ pc = "normalizeReviewed"
    /\ IF Truthy(reviewed_diff)
       THEN /\ reviewed_diff' = Some(normalizeDiff(reviewed_diff.val))
            /\ IF diffs_dir THEN Call(<<"writeReviewedDiff">>) ELSE UNCHANGED calls
       ELSE UNCHANGED <<reviewed_diff, calls>>
    /\ Goto("reconcile")
    /\ UNCHANGED <<eventVars, workingCopy, fastPathVars, most_recent_review,
                   current_diff, twoDot, msg, dismissVars, parseVars>>

\* normalize the reviewed diff when it is truthy, and write it out
NormalizeReviewed ==
    /\ pc = "normalizeReviewed"
    /\ IF Truthy(reviewed_diff)
       THEN /\ reviewed_diff' = Some(normalizeDiff(reviewed_diff.val))
            /\ IF diffs_dir THEN Call(<<"writeReviewedDiff">>) ELSE UNCHANGED calls
       ELSE UNCHANGED <<reviewed_diff, calls>>
    /\ Goto("currentDiff")
    /\ UNCHANGED <<eventVars, workingCopy, fastPathVars, most_recent_review,
                   current_diff, twoDot, msg, dismissVars, parseVars>>

\* the current three-dot diff: compareCommits(base.sha, head.sha)
CurrentDiff ==
    /\ pc = "currentDiff"
    /\ Call(<<"compareCurrent">>)
    /\ \/ /\ \E message \in {CompareFailed, CompareNotString} : Throw(message)
          /\ UNCHANGED current_diff
       \/ \E response \in DiffTexts :
            /\ current_diff' = normalizeDiff(response)
            /\ Goto("reconcile")
    /\ UNCHANGED <<eventVars, workingCopy, fastPathVars, most_recent_review,
                   reviewed_diff, twoDot, msg, dismissVars, parseVars>>

\* an unknown reviewed diff taken as equal
Differs_KnownOnly(reviewed, current) == reviewed.some /\ reviewed.val # current

\* reviewed_diff !== current_diff
Differs(reviewed, current) == ~reviewed.some \/ reviewed.val # current

\* whether the two-dot diff is to be computed
Reconcile ==
    /\ pc = "reconcile"
    /\ msg' = ""
    /\ IF Truthy(reviewed_diff) /\ reviewed_diff.val # current_diff
       THEN Goto("cloneIfNeeded")
       ELSE Goto("verdict")
    /\ UNCHANGED <<eventVars, workingCopy, fastPathVars, most_recent_review,
                   reviewed_diff, current_diff, twoDot, calls, dismissVars, parseVars>>

\* the clone made whether or not the path exists
CloneIfNeeded_Always ==
    /\ pc = "cloneIfNeeded"
    /\ \E cloned \in BOOLEAN, configured \in BOOLEAN :
          IF ~cloned
          THEN /\ Call(<<"existsRepo", "clone">>)
               /\ Throw("Command failed: gh repo clone")
               /\ UNCHANGED workingCopy
          ELSE /\ Call(<<"existsRepo", "clone", "authSetupGit">>)
               /\ workingCopy' = "cloned"
               /\ IF configured
                  THEN Goto("fetch")
                  ELSE Throw("Command failed: gh auth setup-git")
    /\ UNCHANGED <<eventVars, fastPathVars, diffVars, dismissVars, parseVars>>

\* genTwoDotDiff: clone the repo if needed
CloneIfNeeded ==
    /\ pc = "cloneIfNeeded"
    /\ IF workingCopy = "absent"
       THEN \E cloned \in BOOLEAN, configured \in BOOLEAN :
               IF ~cloned
               THEN /\ Call(<<"existsRepo", "clone">>)
                    /\ Throw("Command failed: gh repo clone")
                    /\ UNCHANGED workingCopy
               ELSE /\ Call(<<"existsRepo", "clone", "authSetupGit">>)
                    /\ workingCopy' = "cloned"
                    /\ IF configured
                       THEN Goto("fetch")
                       ELSE Throw("Command failed: gh auth setup-git")
       ELSE /\ Call(<<"existsRepo">>)
            /\ UNCHANGED workingCopy
            /\ Goto("fetch")
    /\ UNCHANGED <<eventVars, fastPathVars, diffVars, dismissVars, parseVars>>

\* a failed fetch taken as a two-dot diff that could not be computed
Fetch_Soft ==
    /\ pc = "fetch"
    /\ Call(<<"fetch">>)
    /\ \E fetched \in BOOLEAN :
        IF fetched
        THEN workingCopy' = "fetched" /\ Goto("gitDiff") /\ UNCHANGED <<twoDot, msg>>
        ELSE /\ UNCHANGED workingCopy
             /\ twoDot' = Null
             /\ msg' = MsgTwoDotFailed
             /\ Goto("verdict")
    /\ UNCHANGED <<eventVars, fastPathVars, most_recent_review, reviewed_diff,
                   current_diff, dismissVars, parseVars>>

\* genTwoDotDiff: fetch the base and head commits
Fetch ==
    /\ pc = "fetch"
    /\ Call(<<"fetch">>)
    /\ \E fetched \in BOOLEAN :
        IF fetched
        THEN workingCopy' = "fetched" /\ Goto("gitDiff")
        ELSE UNCHANGED workingCopy /\ Throw("Command failed: git fetch")
    /\ UNCHANGED <<eventVars, fastPathVars, diffVars, dismissVars, parseVars>>

\* how spawnSync('git', [..., 'diff', ...]) can end
GitDiffExits == {"spawnError", "ENOBUFS", "status0", "status1", "status2"}

\* the truncated output of an overflow returned as the diff
TwoDotResult_OverflowKept(exit, stdout) ==
    IF exit \in {"status0", "status1", "ENOBUFS"} THEN Some(stdout) ELSE Null

\* genTwoDotDiff: null on a spawn error, an overflow or a status > 1
TwoDotResult(exit, stdout) ==
    IF exit \in {"status0", "status1"} THEN Some(stdout) ELSE Null

\* genTwoDotDiff: git diff base head, and what dismissIfStale does with it
GitDiff ==
    /\ pc = "gitDiff"
    /\ Call(<<"gitDiff">>)
    /\ \E exit \in GitDiffExits, stdout \in DiffTexts :
        /\ twoDot' = TwoDotResult(exit, stdout)
        /\ IF twoDot'.some
           THEN /\ current_diff' = normalizeDiff(twoDot'.val)
                /\ UNCHANGED msg
           ELSE /\ msg' = MsgTwoDotFailed
                /\ UNCHANGED current_diff
    /\ Goto("verdict")
    /\ UNCHANGED <<eventVars, workingCopy, fastPathVars, most_recent_review,
                   reviewed_diff, dismissVars, parseVars>>

\* the unknown reviewed diff reported as a code change
FinalMessage_NoUnknown(reviewed, composed) ==
    IF composed = "" THEN MsgCodeChanged ELSE composed

\* the message of a dismissal
FinalMessage(reviewed, composed) ==
    IF ~Truthy(reviewed) THEN MsgUnableReviewed
    ELSE IF composed = "" THEN MsgCodeChanged
    ELSE composed

\* the verdict: dismiss when the diffs differ
Verdict ==
    /\ pc = "verdict"
    /\ IF Differs(reviewed_diff, current_diff)
       THEN /\ msg' = FinalMessage(reviewed_diff, msg)
            /\ dismissMsg' = msg'
            /\ Call((IF diffs_dir THEN <<"writeCurrentDiff">> ELSE <<>>)
                    \o <<"dismissApprovals">>)
            /\ Goto("dismissApprovals")
       ELSE /\ UNCHANGED <<msg, dismissMsg>>
            /\ Call(IF diffs_dir THEN <<"writeCurrentDiff">> ELSE <<>>)
            /\ Return("NotStale")
    /\ UNCHANGED <<eventVars, workingCopy, fastPathVars, most_recent_review,
                   reviewed_diff, current_diff, twoDot, dismissed, requests,
                   listed, sent, parseVars>>

\* review.state of the reviews of a listing
ListedStates == ReviewStates \cup {"CHANGES_REQUESTED", "DISMISSED"}

\* what a listing of the reviews can hold when dismissApprovals runs at
\* the end of a whole run, and when dismissApprovals is taken on its own
RunListings == SeqUpTo(ReviewStates, MaxReviews)

AnyListings == SeqUpTo(ListedStates, MaxReviews)

\* every review but the commented ones passes the filter
RECURSIVE ApprovedIn_NotCommented(_, _)
ApprovedIn_NotCommented(states, i) ==
    IF i > Len(states) THEN <<>>
    ELSE (IF states[i] # "COMMENTED" THEN <<i>> ELSE <<>>)
         \o ApprovedIn_NotCommented(states, i + 1)

\* the reviews of a listing that pass the filter of getApprovedReviews, by
\* their place in the listing, in the order of the listing
RECURSIVE ApprovedIn(_, _)
ApprovedIn(states, i) ==
    IF i > Len(states) THEN <<>>
    ELSE (IF states[i] = "APPROVED" THEN <<i>> ELSE <<>>) \o ApprovedIn(states, i + 1)

\* the loop of dismissApprovals: one dismissReview request for every
\* review of approved_reviews, each with the message argument
DismissRequests(approved_reviews, message) ==
    [k \in DOMAIN approved_reviews |->
        [review_id |-> approved_reviews[k], message |-> message]]

\* PullRequest.dismissApprovals: the approved reviews are listed and a
\* dismissal request is issued for every one of them; Promise.all of no
\* request is fulfilled at once
DismissApprovalsOver(listings) ==
    /\ \/ /\ Call(<<"listReviews">>)
          /\ Throw("listReviews failed")
          /\ UNCHANGED <<dismissed, requests, listed, sent>>
       \/ \E states \in listings :
            LET approved_reviews == ApprovedIn(states, 1)
                approved == Range(approved_reviews)
            IN /\ Call(<<"listReviews">> \o [k \in 1..Cardinality(approved) |-> "dismissReview"])
               /\ listed' = states
               /\ sent' = DismissRequests(approved_reviews, dismissMsg)
               /\ dismissed' = approved
               /\ requests' = [i \in approved |-> "pending"]
               /\ IF approved = {}
                  THEN Return("Stale")
                  ELSE Goto("awaitDismissals")
    /\ UNCHANGED <<eventVars, workingCopy, fastPathVars, diffVars, dismissMsg, parseVars>>

\* dismissApprovals at the end of a run
DismissApprovals ==
    /\ pc = "dismissApprovals"
    /\ DismissApprovalsOver(RunListings)

\* Promise.all(requests): rejected as soon as one request is rejected,
\* fulfilled when all are fulfilled
PromiseAll(settled) ==
    IF \E i \in DOMAIN settled : settled[i] = "rejected" THEN "rejected"
    ELSE IF \A i \in DOMAIN settled : settled[i] = "fulfilled" THEN "fulfilled"
    ELSE "pending"

\* one dismissal request settles.  While dismissApprovals awaits
\* Promise.all the run goes on as soon as that promise settles: its
\* rejection is thrown out of dismissIfStale and reported by run() before
\* any other response is handled.  Requests still pending then settle
\* after the run was reported.
SettleDismissal ==
    /\ pc \in {"awaitDismissals", "done"}
    /\ \E i \in DOMAIN requests, result \in {"fulfilled", "rejected"} :
        /\ requests[i] = "pending"
        /\ requests' = [requests EXCEPT ![i] = result]
    /\ IF pc = "awaitDismissals"
       THEN CASE PromiseAll(requests') = "rejected" -> Throw("dismissReview failed")
              [] PromiseAll(requests') = "fulfilled" -> Return("Stale")
              [] OTHER -> UNCHANGED <<pc, outcome, error>>
       ELSE UNCHANGED <<pc, outcome, error>>
    /\ UNCHANGED <<eventVars, workingCopy, fastPathVars, diffVars, calls, dismissed,
                   dismissMsg, listed, sent, parseVars>>

Next ==
    \/ TriggerFilter
    \/ Construct
    \/ LoadMetadata
    \/ GetMergeBase
    \/ RunRangeDiff
    \/ FastPathReturn
    \/ GenReviewedDiff
    \/ ListReviews
    \/ ScanEvents
    \/ CompareReviewed
    \/ NormalizeReviewed
    \/ CurrentDiff
    \/ Reconcile
    \/ CloneIfNeeded
    \/ Fetch
    \/ GitDiff
    \/ Verdict
    \/ DismissApprovals
    \/ SettleDismissal

Spec == Init /\ [][Next]_vars

\* every await of the run settles and every synchronous step returns: a
\* step that can be taken is taken
FairSpec == Spec /\ WF_vars(Next)

(***************************************************************************)
(* The evaluator with rebase reconciliation (the dismissIfStale of         *)
(* unnamed/part_005 with the GitRepo of src/src/git-repo.ts): no fast      *)
(* path, a two-dot diff by GitRepo.diff, a rebase when the diffs still     *)
(* differ, and a dry_run argument.  The trigger filter, the reviewed-diff  *)
(* reconstruction and dismissApprovals are those of the run above.         *)
(***************************************************************************)
InitOlder ==
    /\ pc = "start"
    /\ action \in Events
    /\ changesBase \in BaseChanges
    /\ action # "edited" => changesBase = "absent"
    /\ payload \in Payloads
    /\ diffs_dir \in BOOLEAN
    /\ rebaseable \in BOOLEAN
    /\ dry_run \in BOOLEAN
    /\ workingCopy \in {"absent", "cloned"}
    /\ metadata = NoMetadata
    /\ rdStatus = "notRun"
    /\ rdComparison = <<>>
    /\ rdStdout = <<>>
    /\ rdParsed = NoParsed
    /\ rangeDiffResult = "none"
    /\ most_recent_review = NoReview
    /\ reviewed_diff = Null
    /\ current_diff = <<>>
    /\ twoDot = Null
    /\ msg = ""
    /\ calls = <<>>
    /\ dismissed = {}
    /\ dismissMsg = ""
    /\ requests = <<>>
    /\ listed = <<>>
    /\ sent = <<>>
    /\ outcome = "running"
    /\ error = ""
    /\ pLines = <<>>
    /\ pInput = <<>>
    /\ pResult = NoParsed
    /\ rReviews = <<>>
    /\ rEvents = <<>>
    /\ rResponse = Null
    /\ rResult = Returned(Null)
    /\ wReviews = <<>>
    /\ wCache = {}
    /\ wSeen = <<>>
    /\ approved_sha = Unset
    /\ review_id = Unset
    /\ wRestored = Null
    /\ wSteps = <<>>
    /\ nLines = <<<<>>, <<>>>>
    /\ nResult = NoNormalized
    /\ diffRequests = <<>>
    /\ mode = "dismiss-stale-reviews"
    /\ token = "token"
    /\ raised = NoneRaised

\* new PullRequest(token) and core.getInput('diffs_directory')
ConstructOlder ==
    /\ pc = "construct"
    /\ IF payload.repository = "absent" \/ ~payload.pull_request
       THEN Throw("This action must be run on a pull request.")
       ELSE IF payload.repository = "unnamed"
            THEN Throw("Unable to determine repository name.")
            ELSE Goto("genReviewedDiff")
    /\ UNCHANGED <<eventVars, workingCopy, fastPathVars, diffVars, calls,
                   dismissVars, parseVars>>

\* the current three-dot diff
CurrentDiffOlder ==
    /\ pc = "currentDiff"
    /\ IF ~payload.pull_request
       THEN /\ Throw("This action must be run on a pull request.")
            /\ UNCHANGED <<calls, current_diff>>
       ELSE /\ Call(<<"compareCurrent">>)
            /\ \/ /\ \E message \in {CompareFailed, CompareNotString} : Throw(message)
                  /\ UNCHANGED current_diff
               \/ \E response \in DiffTexts :
                    /\ current_diff' = normalizeDiff(response)
                    /\ Goto("reconcileOlder")
    /\ UNCHANGED <<eventVars, workingCopy, fastPathVars, most_recent_review,
                   reviewed_diff, twoDot, msg, dismissVars, parseVars>>

\* whether the two-dot diff is to be computed, and new GitRepo(...)
ReconcileOlder ==
    /\ pc = "reconcileOlder"
    /\ IF Truthy(reviewed_diff) /\ reviewed_diff.val # current_diff
       THEN IF payload.repository = "absent"
            THEN Throw("This action must be run on a pull request with repository made available in the payload.")
            ELSE IF payload.repository = "unnamed"
                 THEN Throw("This action must be run on a pull request with a repository and full_name made available in the payload.")
                 ELSE Goto("repoCloneIfNeeded")
       ELSE Goto("verdictOlder")
    /\ UNCHANGED <<eventVars, workingCopy, fastPathVars, diffVars, calls,
                   dismissVars, parseVars>>

\* GitRepo.cloneIfNeeded
GitRepo_cloneIfNeeded ==
    /\ pc = "repoCloneIfNeeded"
    /\ IF workingCopy = "absent"
       THEN \E cloned \in BOOLEAN, configured \in BOOLEAN :
               IF ~cloned
               THEN /\ Call(<<"existsRepo", "clone">>)
                    /\ Throw("Command failed: gh repo clone")
                    /\ UNCHANGED workingCopy
               ELSE /\ Call(<<"existsRepo", "clone", "authSetupGit">>)
                    /\ workingCopy' = "cloned"
                    /\ IF configured
                       THEN Goto("repoFetch")
                       ELSE Throw("Command failed: gh auth setup-git")
       ELSE /\ Call(<<"existsRepo">>)
            /\ UNCHANGED workingCopy
            /\ Goto("repoFetch")
    /\ UNCHANGED <<eventVars, fastPathVars, diffVars, dismissVars, parseVars>>

\* GitRepo.fetch(base.sha, head.sha)
GitRepo_fetch ==
    /\ pc = "repoFetch"
    /\ Call(<<"fetch">>)
    /\ \E fetched \in BOOLEAN :
        IF fetched
        THEN workingCopy' = "fetched" /\ Goto("repoDiff")
        ELSE UNCHANGED workingCopy /\ Throw("Command failed: git fetch")
    /\ UNCHANGED <<eventVars, fastPathVars, diffVars, dismissVars, parseVars>>

\* how the spawnSync('git', ['diff', ...]) of GitRepo.diff can end: with a
\* spawn error stdout and stderr are null and toString() throws; otherwise
\* stdout is returned whatever the status
RepoDiffExits == {"spawnError", "exited"}

NullToString == "Cannot read properties of null (reading 'toString')"

\* the commits both calls of repo.diff name: the base and the head of the
\* pull request as the event gives them
DiffRequest == [base_sha |-> "pull_request.base.sha", head_sha |-> "pull_request.head.sha"]

\* the first GitRepo.diff, and whether a rebase is to be tried
GitRepo_diff ==
    /\ pc = "repoDiff"
    /\ Call(<<"gitDiff">>)
    /\ \E exit \in RepoDiffExits, stdout \in DiffTexts :
        IF exit = "spawnError"
        THEN /\ Throw(NullToString)
             /\ UNCHANGED <<twoDot, current_diff>>
        ELSE /\ twoDot' = Some(stdout)
             /\ current_diff' = normalizeDiff(stdout)
             /\ IF reviewed_diff.val # current_diff' /\ rebaseable
                THEN Goto("repoRebase")
                ELSE Goto("verdictOlder")
    /\ diffRequests' = Append(diffRequests, DiffRequest)
    /\ UNCHANGED <<eventVars, workingCopy, fastPathVars, most_recent_review,
                   reviewed_diff, msg, dismissVars, functionVars, runVars>>

\* a failed rebase ends the run
GitRepo_rebase_Fatal ==
    /\ pc = "repoRebase"
    /\ Call(<<"rebase">>)
    /\ \E rebased \in BOOLEAN :
        IF rebased THEN Goto("repoRediff") ELSE Throw("Command failed: git rebase")
    /\ UNCHANGED <<eventVars, workingCopy, fastPathVars, diffVars, dismissVars, parseVars>>

\* GitRepo.rebase in its try: a failure is caught and only logged
GitRepo_rebase ==
    /\ pc = "repoRebase"
    /\ Call(<<"rebase">>)
    /\ \E rebased \in BOOLEAN :
        IF rebased THEN Goto("repoRediff") ELSE Goto("verdictOlder")
    /\ UNCHANGED <<eventVars, workingCopy, fastPathVars, diffVars, dismissVars, parseVars>>

\* GitRepo.diff after the rebase, for the same base.sha and head.sha as
\* before it: git diff of the same two commits prints the same text
GitRepo_rediff ==
    /\ pc = "repoRediff"
    /\ Call(<<"gitDiff">>)
    /\ \E exit \in RepoDiffExits :
        IF exit = "spawnError"
        THEN /\ Throw(NullToString)
             /\ UNCHANGED current_diff
        ELSE /\ current_diff' = normalizeDiff(twoDot.val)
             /\ Goto("verdictOlder")
    /\ diffRequests' = Append(diffRequests, DiffRequest)
    /\ UNCHANGED <<eventVars, workingCopy, fastPathVars, most_recent_review,
                   reviewed_diff, twoDot, msg, dismissVars, functionVars, runVars>>

\* the message of a dismissal of this evaluator
FinalMessageOlder(reviewed) ==
    IF ~Truthy(reviewed) THEN MsgUnableReviewed ELSE MsgCodeChanged

\* the verdict: dismiss when the diffs differ, unless dry_run
VerdictOlder ==
    /\ pc = "verdictOlder"
    /\ IF Differs(reviewed_diff, current_diff)
       THEN /\ msg' = FinalMessageOlder(reviewed_diff)
            /\ IF dry_run
               THEN /\ Call(IF diffs_dir THEN <<"writeCurrentDiff">> ELSE <<>>)
                    /\ UNCHANGED dismissMsg
                    /\ Return("DryRun")
               ELSE /\ Call((IF diffs_dir THEN <<"writeCurrentDiff">> ELSE <<>>)
                            \o <<"dismissApprovals">>)
                    /\ dismissMsg' = msg'
                    /\ Goto("dismissApprovals")
       ELSE /\ UNCHANGED <<msg, dismissMsg>>
            /\ Call(IF diffs_dir THEN <<"writeCurrentDiff">> ELSE <<>>)
            /\ Return("NotStale")
    /\ UNCHANGED <<eventVars, workingCopy, fastPathVars, most_recent_review,
                   reviewed_diff, current_diff, twoDot, dismissed, requests,
                   listed, sent, parseVars>>

NextOlder ==
    \/ TriggerFilter
    \/ ConstructOlder
    \/ GenReviewedDiff
    \/ ListReviews
    \/ ScanEvents
    \/ CompareReviewed
    \/ NormalizeReviewed
    \/ CurrentDiffOlder
    \/ ReconcileOlder
    \/ GitRepo_cloneIfNeeded
    \/ GitRepo_fetch
    \/ GitRepo_diff
    \/ GitRepo_rebase
    \/ GitRepo_rediff
    \/ VerdictOlder
    \/ DismissApprovals
    \/ SettleDismissal

SpecOlder == InitOlder /\ [][NextOlder]_vars

(***************************************************************************)
(* The classifier on its own: parseRangeDiffOutput applied to texts of up  *)
(* to MaxLines lines.  Each line of the catalog is listed with what it is: *)
(* the marker of the commit record it holds ("" for none) and whether it   *)
(* begins with a space or a tab.                                           *)
(***************************************************************************)
LineCatalog ==
    << [text |-> <<"1", ":", " ", " ", "a", "1", " ", "=", " ", "1", ":", " ", " ", "b", "2", " ", "s">>,
        marker |-> "=", indented |-> FALSE],
       [text |-> <<"2", ":", " ", " ", "c", "3", " ", "!", " ", "2", ":", " ", " ", "d", "4", " ", "s">>,
        marker |-> "!", indented |-> FALSE],
       [text |-> <<"-", ":", " ", " ", "-", "-", " ", ">", " ", "3", ":", " ", " ", "e", "5", " ", "s">>,
        marker |-> ">", indented |-> FALSE],
       [text |-> <<"4", ":", " ", " ", "f", "6", " ", "<", " ", "-", ":", " ", " ", "-", "-", " ", "s">>,
        marker |-> "<", indented |-> FALSE],
       [text |-> <<"1", "0", ":", " ", " ", "a", "1", " ", "=", " ", "1", "0", ":", " ", " ", "b", "2">>,
        marker |-> "=", indented |-> FALSE],
       [text |-> <<" ", "5", ":", " ", " ", "c", "3", " ", "!", " ", " ", "5", ":", " ", " ", "d", "4", " ", "s">>,
        marker |-> "!", indented |-> TRUE],
       [text |-> <<" ", " ", " ", " ", "1", ":", " ", "a", "1", " ", ">", " ", "1", ":", " ", "b", "2">>,
        marker |-> ">", indented |-> TRUE],
       [text |-> <<"\t", "1", ":", " ", "a", "1", " ", "<", " ", "-", ":", " ", "-", "-">>,
        marker |-> "<", indented |-> TRUE],
       [text |-> <<" ", " ", " ", " ", "@", "@", " ", "m", "s", "g">>,
        marker |-> "", indented |-> TRUE],
       [text |-> <<>>, marker |-> "", indented |-> FALSE],
       [text |-> <<" ", " ">>, marker |-> "", indented |-> TRUE],
       [text |-> <<"w", "a", "r", "n", ":", " ", "x", " ", "!", " ", "y">>,
        marker |-> "", indented |-> FALSE],
       [text |-> <<"1", ":", " ", "z", "z", " ", "!", " ", "1", ":", " ", "a", "1">>,
        marker |-> "", indented |-> FALSE],
       [text |-> <<"1", ":", " ", "a", "1", " ", "~", " ", "1", ":", " ", "a", "1">>,
        marker |-> "", indented |-> FALSE] >>

\* lines.join('\n'): the text whose split gives these lines
RECURSIVE JoinLines(_)
JoinLines(lines) ==
    IF lines = <<>> THEN <<>>
    ELSE IF Len(lines) = 1 THEN LineCatalog[lines[1]].text
    ELSE LineCatalog[lines[1]].text \o <<"\n">> \o JoinLines(SubSeq(lines, 2, Len(lines)))

InitParse ==
    /\ pc = "parse"
    /\ pLines \in SeqUpTo(DOMAIN LineCatalog, MaxLines)
    /\ pInput = JoinLines(pLines)
    /\ pResult = NoParsed
    /\ action = "opened"
    /\ changesBase = "absent"
    /\ payload = [pull_request |-> TRUE, repository |-> "named"]
    /\ diffs_dir = FALSE
    /\ rebaseable = FALSE
    /\ dry_run = FALSE
    /\ workingCopy = "cloned"
    /\ metadata = NoMetadata
    /\ rdStatus = "notRun"
    /\ rdComparison = <<>>
    /\ rdStdout = <<>>
    /\ rdParsed = NoParsed
    /\ rangeDiffResult = "none"
    /\ most_recent_review = NoReview
    /\ reviewed_diff = Null
    /\ current_diff = <<>>
    /\ twoDot = Null
    /\ msg = ""
    /\ calls = <<>>
    /\ dismissed = {}
    /\ dismissMsg = ""
    /\ requests = <<>>
    /\ listed = <<>>
    /\ sent = <<>>
    /\ outcome = "running"
    /\ error = ""
    /\ rReviews = <<>>
    /\ rEvents = <<>>
    /\ rResponse = Null
    /\ rResult = Returned(Null)
    /\ wReviews = <<>>
    /\ wCache = {}
    /\ wSeen = <<>>
    /\ approved_sha = Unset
    /\ review_id = Unset
    /\ wRestored = Null
    /\ wSteps = <<>>
    /\ nLines = <<<<>>, <<>>>>
    /\ nResult = NoNormalized
    /\ diffRequests = <<>>
    /\ mode = "dismiss-stale-reviews"
    /\ token = "token"
    /\ raised = NoneRaised

ApplyParse ==
    /\ pc = "parse"
    /\ pResult' = parseRangeDiffOutput(pInput)
    /\ pc' = "parsed"
    /\ UNCHANGED <<eventVars, workingCopy, fastPathVars, diffVars, calls,
                   dismissVars, outcome, error, pLines, pInput, reviewedVars,
                   platformVars, jobVars, normalizeVars, repoVars, runVars>>

NextParse == ApplyParse

SpecParse == InitParse /\ [][NextParse]_vars

(***************************************************************************)
(* The reconstruction on its own: getMostRecentlyReviewedDiff applied to   *)
(* every listing of up to MaxReviews reviews and MaxEvents events.         *)
(***************************************************************************)
InitReviewed ==
    /\ pc = "reviewing"
    /\ rReviews \in SeqUpTo(Reviews, MaxReviews)
    /\ rEvents \in Timelines
    /\ rResponse \in {Null, Some(<<>>), Some(SampleDiff)}
    /\ rResult = Returned(Null)
    /\ wReviews = <<>>
    /\ wCache = {}
    /\ wSeen = <<>>
    /\ approved_sha = Unset
    /\ review_id = Unset
    /\ wRestored = Null
    /\ wSteps = <<>>
    /\ nLines = <<<<>>, <<>>>>
    /\ nResult = NoNormalized
    /\ diffRequests = <<>>
    /\ mode = "dismiss-stale-reviews"
    /\ token = "token"
    /\ raised = NoneRaised
    /\ pLines = <<>>
    /\ pInput = <<>>
    /\ pResult = NoParsed
    /\ action = "synchronize"
    /\ changesBase = "absent"
    /\ payload = [pull_request |-> TRUE, repository |-> "named"]
    /\ diffs_dir = FALSE
    /\ rebaseable = FALSE
    /\ dry_run = FALSE
    /\ workingCopy = "cloned"
    /\ metadata = NoMetadata
    /\ rdStatus = "notRun"
    /\ rdComparison = <<>>
    /\ rdStdout = <<>>
    /\ rdParsed = NoParsed
    /\ rangeDiffResult = "none"
    /\ most_recent_review = NoReview
    /\ reviewed_diff = Null
    /\ current_diff = <<>>
    /\ twoDot = Null
    /\ msg = ""
    /\ calls = <<>>
    /\ dismissed = {}
    /\ dismissMsg = ""
    /\ requests = <<>>
    /\ listed = <<>>
    /\ sent = <<>>
    /\ outcome = "running"
    /\ error = ""

ApplyReviewed ==
    /\ pc = "reviewing"
    /\ rResult' = getMostRecentlyReviewedDiff(rReviews, rEvents, rResponse)
    /\ pc' = "reviewed"
    /\ UNCHANGED <<eventVars, workingCopy, fastPathVars, diffVars, calls,
                   dismissVars, outcome, error, pLines, pInput, pResult,
                   rReviews, rEvents, rResponse, platformVars, jobVars,
                   normalizeVars, repoVars, runVars>>

NextReviewed == ApplyReviewed

SpecReviewed == InitReviewed /\ [][NextReviewed]_vars

(***************************************************************************)
(* The verdict and the dismissal on their own: dismissIfStale from its     *)
(* comparison of the two diffs on, with listings of reviews in every       *)
(* state.  calls holds the calls made from there on.                       *)
(***************************************************************************)
\* the normalized diffs a run can hold when it reaches the verdict
VerdictDiffs == {normalizeDiff(t) : t \in DiffTexts}

InitDismiss ==
    /\ pc = "verdict"
    /\ reviewed_diff \in {Null} \cup {Some(t) : t \in VerdictDiffs}
    /\ current_diff \in VerdictDiffs
    /\ msg \in {"", MsgTwoDotFailed}
    /\ msg = MsgTwoDotFailed
          => Truthy(reviewed_diff) /\ reviewed_diff.val # current_diff
    /\ diffs_dir \in BOOLEAN
    /\ action = "synchronize"
    /\ changesBase = "absent"
    /\ payload = [pull_request |-> TRUE, repository |-> "named"]
    /\ rebaseable = FALSE
    /\ dry_run = FALSE
    /\ workingCopy = "cloned"
    /\ metadata = NoMetadata
    /\ rdStatus = "notRun"
    /\ rdComparison = <<>>
    /\ rdStdout = <<>>
    /\ rdParsed = NoParsed
    /\ rangeDiffResult = "fallback"
    /\ most_recent_review = NoReview
    /\ twoDot = Null
    /\ calls = <<>>
    /\ dismissed = {}
    /\ dismissMsg = ""
    /\ requests = <<>>
    /\ listed = <<>>
    /\ sent = <<>>
    /\ outcome = "running"
    /\ error = ""
    /\ pLines = <<>>
    /\ pInput = <<>>
    /\ pResult = NoParsed
    /\ rReviews = <<>>
    /\ rEvents = <<>>
    /\ rResponse = Null
    /\ rResult = Returned(Null)
    /\ wReviews = <<>>
    /\ wCache = {}
    /\ wSeen = <<>>
    /\ approved_sha = Unset
    /\ review_id = Unset
    /\ wRestored = Null
    /\ wSteps = <<>>
    /\ nLines = <<<<>>, <<>>>>
    /\ nResult = NoNormalized
    /\ diffRequests = <<>>
    /\ mode = "dismiss-stale-reviews"
    /\ token = "token"
    /\ raised = NoneRaised

\* dismissApprovals with a listing of reviews in every state
DismissListed ==
    /\ pc = "dismissApprovals"
    /\ DismissApprovalsOver(AnyListings)

NextDismiss ==
    \/ Verdict
    \/ DismissListed
    \/ SettleDismissal

SpecDismiss == InitDismiss /\ [][NextDismiss]_vars

(***************************************************************************)
(* The normalizer on its own: normalizeDiff applied to two diffs of the    *)
(* same number of lines, up to MaxDiffLines, that differ in at most one    *)
(* line.  Each line of the catalog is                                      *)
(* listed with what it is: "index" for an index line (with the mode        *)
(* suffix it ends with, if any), "nested" for an index prefix directly     *)
(* followed by another, "other" for any other line.                        *)
(***************************************************************************)
DiffLineCatalog ==
    << [text |-> IndexToken \o <<"a", "1", ".", ".", "b", "2">>,
        kind |-> "index", mode |-> <<>>],
       [text |-> IndexToken \o <<"c", "3", ".", ".", "d", "4">>,
        kind |-> "index", mode |-> <<>>],
       [text |-> IndexToken \o <<"a", "1", ".", ".", "b", "2", " ", "1", "0", "0", "6", "4", "4">>,
        kind |-> "index", mode |-> <<" ", "1", "0", "0", "6", "4", "4">>],
       [text |-> IndexToken \o <<"c", "3", ".", ".", "d", "4", " ", "1", "0", "0", "7", "5", "5">>,
        kind |-> "index", mode |-> <<" ", "1", "0", "0", "7", "5", "5">>],
       [text |-> <<"+", "x">>, kind |-> "other", mode |-> <<>>],
       [text |-> <<"+">> \o IndexToken \o <<"a", "1", ".", ".", "b", "2">>,
        kind |-> "other", mode |-> <<>>],
       [text |-> <<" ", "y", "\r">> \o IndexToken \o <<"a", "1", ".", "b", "2">>,
        kind |-> "other", mode |-> <<>>],
       [text |-> IndexToken \o <<"a", "1", ".", ".", "b", "2">>
                 \o IndexToken \o <<"c", "3", ".", ".", "d", "4">>,
        kind |-> "nested", mode |-> <<>>] >>

\* the diff made of these lines of the catalog
RECURSIVE JoinDiff(_)
JoinDiff(lines) ==
    IF lines = <<>> THEN <<>>
    ELSE IF Len(lines) = 1 THEN DiffLineCatalog[lines[1]].text
    ELSE DiffLineCatalog[lines[1]].text \o <<"\n">> \o JoinDiff(SubSeq(lines, 2, Len(lines)))

InitNormalize ==
    /\ pc = "normalizing"
    /\ \E n \in 0..MaxDiffLines :
          /\ nLines \in [1..n -> DOMAIN DiffLineCatalog] \X [1..n -> DOMAIN DiffLineCatalog]
          /\ Cardinality({k \in 1..n : nLines[1][k] # nLines[2][k]}) <= 1
    /\ nResult = NoNormalized
    /\ diffRequests = <<>>
    /\ mode = "dismiss-stale-reviews"
    /\ token = "token"
    /\ raised = NoneRaised
    /\ wReviews = <<>>
    /\ wCache = {}
    /\ wSeen = <<>>
    /\ approved_sha = Unset
    /\ review_id = Unset
    /\ wRestored = Null
    /\ wSteps = <<>>
    /\ action = "synchronize"
    /\ changesBase = "absent"
    /\ payload = [pull_request |-> TRUE, repository |-> "named"]
    /\ diffs_dir = FALSE
    /\ rebaseable = FALSE
    /\ dry_run = FALSE
    /\ workingCopy = "cloned"
    /\ metadata = NoMetadata
    /\ rdStatus = "notRun"
    /\ rdComparison = <<>>
    /\ rdStdout = <<>>
    /\ rdParsed = NoParsed
    /\ rangeDiffResult = "none"
    /\ most_recent_review = NoReview
    /\ reviewed_diff = Null
    /\ current_diff = <<>>
    /\ twoDot = Null
    /\ msg = ""
    /\ calls = <<>>
    /\ dismissed = {}
    /\ dismissMsg = ""
    /\ requests = <<>>
    /\ listed = <<>>
    /\ sent = <<>>
    /\ outcome = "running"
    /\ error = ""
    /\ pLines = <<>>
    /\ pInput = <<>>
    /\ pResult = NoParsed
    /\ rReviews = <<>>
    /\ rEvents = <<>>
    /\ rResponse = Null
    /\ rResult = Returned(Null)

ApplyNormalize ==
    /\ pc = "normalizing"
    /\ nResult' = [first |-> normalizeDiff(JoinDiff(nLines[1])),
                   again |-> normalizeDiff(normalizeDiff(JoinDiff(nLines[1]))),
                   second |-> normalizeDiff(JoinDiff(nLines[2]))]
    /\ pc' = "normalized"
    /\ UNCHANGED <<eventVars, workingCopy, fastPathVars, diffVars, calls,
                   dismissVars, outcome, error, pLines, pInput, pResult,
                   reviewedVars, platformVars, jobVars, nLines, repoVars, runVars>>

NextNormalize == ApplyNormalize

SpecNormalize == InitNormalize /\ [][NextNormalize]_vars

(***************************************************************************)
(* The two workflows: the job snapshot-approved-diff, run when a review is *)
(* submitted, and the job dismiss-if-diff-changed with its steps           *)
(* check-for-approvals, cache restore and dismiss-stale-reviews.           *)
(***************************************************************************)
\* head commits of the pull request
Commits == {<<"c", "1">>, <<"c", "2">>}

\* latest.commit_id ?? ''
OrEmpty(commit_id) == IF commit_id.some THEN commit_id.val ELSE <<>>

\* checkForApprovals: ApprovalInfo | null
checkForApprovals(reviews) ==
    LET approved_reviews == getApprovedReviews(reviews)
        latest == approved_reviews[Len(approved_reviews)]
    IN IF Len(approved_reviews) = 0
       THEN Null
       ELSE Some([approved_sha |-> OrEmpty(latest.commit_id), review_id |-> latest.id])

InitWorkflow ==
    /\ pc = "check"
    /\ wReviews = <<>>
    /\ wCache = {}
    /\ wSeen = <<>>
    /\ approved_sha = Unset
    /\ review_id = Unset
    /\ wRestored = Null
    /\ wSteps = <<>>
    /\ nLines = <<<<>>, <<>>>>
    /\ nResult = NoNormalized
    /\ diffRequests = <<>>
    /\ mode = "dismiss-stale-reviews"
    /\ token = "token"
    /\ raised = NoneRaised
    /\ action = "synchronize"
    /\ changesBase = "absent"
    /\ payload = [pull_request |-> TRUE, repository |-> "named"]
    /\ diffs_dir = FALSE
    /\ rebaseable = FALSE
    /\ dry_run = FALSE
    /\ workingCopy = "cloned"
    /\ metadata = NoMetadata
    /\ rdStatus = "notRun"
    /\ rdComparison = <<>>
    /\ rdStdout = <<>>
    /\ rdParsed = NoParsed
    /\ rangeDiffResult = "none"
    /\ most_recent_review = NoReview
    /\ reviewed_diff = Null
    /\ current_diff = <<>>
    /\ twoDot = Null
    /\ msg = ""
    /\ calls = <<>>
    /\ dismissed = {}
    /\ dismissMsg = ""
    /\ requests = <<>>
    /\ listed = <<>>
    /\ sent = <<>>
    /\ outcome = "running"
    /\ error = ""
    /\ pLines = <<>>
    /\ pInput = <<>>
    /\ pResult = NoParsed
    /\ rReviews = <<>>
    /\ rEvents = <<>>
    /\ rResponse = Null
    /\ rResult = Returned(Null)

\* what the workflow actions leave alone
evaluatorVars ==
    <<eventVars, workingCopy, fastPathVars, diffVars, calls, dismissVars,
      outcome, error, pLines, pInput, pResult, reviewedVars, normalizeVars,
      repoVars, runVars>>

\* A review as pulls.listReviews gives it holds: id, its place in the
\* listing; state; submitted_at; commit_id, the head commit it was
\* submitted on (string | null); and snapshot_key, the cache key its
\* snapshot job saved under ("" for none).
\* a review is submitted on the head commit (pull_request_review:
\* submitted), and the job snapshot-approved-diff runs for it: for an
\* approval the diff is saved under the key pull_request.head.sha, unless
\* the save fails
ReviewSubmitted ==
    /\ Len(wReviews) < MaxReviews
    /\ \E state \in ReviewStates, t \in Times, head \in Commits,
          recorded \in BOOLEAN, saved \in BOOLEAN :
        LET key == IF state = "APPROVED" /\ saved THEN head ELSE <<>>
        IN /\ wReviews' = Append(wReviews,
                              [id |-> Len(wReviews) + 1, state |-> state,
                               submitted_at |-> t,
                               commit_id |-> IF recorded THEN Some(head) ELSE Null,
                               snapshot_key |-> key])
           /\ wCache' = IF key # <<>> THEN wCache \cup {key} ELSE wCache
    /\ UNCHANGED <<pc, jobVars, evaluatorVars>>

\* step check: run() in mode check-for-approvals
CheckStep ==
    /\ pc = "check"
    /\ \/ /\ pc' = "jobFailed"
          /\ wSteps' = Append(wSteps, "check")
          /\ UNCHANGED <<wSeen, approved_sha, review_id>>
       \/ LET result == checkForApprovals(wReviews)
          IN /\ wSeen' = wReviews
             /\ IF result # Null
                THEN /\ approved_sha' = result.val.approved_sha
                     /\ review_id' = ToDigits(result.val.review_id)
                ELSE /\ approved_sha' = <<>>
                     /\ review_id' = <<>>
             /\ wSteps' = Append(wSteps, "check")
             /\ pc' = "restore"
    /\ UNCHANGED <<wRestored, platformVars, evaluatorVars>>

\* the steps run whatever the check step reported
HasApproval_Always == approved_sha # Unset

\* steps.check.outputs.approved_sha && steps.check.outputs.approved_sha != ''
HasApproval == approved_sha # <<>>

\* step actions/cache/restore, with key steps.check.outputs.approved_sha
RestoreStep ==
    /\ pc = "restore"
    /\ IF HasApproval
       THEN /\ wRestored' = Some(approved_sha)
            /\ wSteps' = Append(wSteps, "restore")
       ELSE UNCHANGED <<wRestored, wSteps>>
    /\ pc' = "dismiss"
    /\ UNCHANGED <<wSeen, approved_sha, review_id, platformVars, evaluatorVars>>

\* step dismiss-stale-reviews: run() enters dismissIfStale
DismissStep ==
    /\ pc = "dismiss"
    /\ IF HasApproval
       THEN wSteps' = Append(wSteps, "dismiss")
       ELSE UNCHANGED wSteps
    /\ pc' = "jobDone"
    /\ UNCHANGED <<wSeen, approved_sha, review_id, wRestored, platformVars,
                   evaluatorVars>>

NextWorkflow ==
    \/ ReviewSubmitted
    \/ CheckStep
    \/ RestoreStep
    \/ DismissStep

SpecWorkflow == InitWorkflow /\ [][NextWorkflow]_vars

(***************************************************************************)
(* The two listings of a run against a pull request that goes on being     *)
(* reviewed: getMostRecentlyReviewedDiff lists the reviews for the verdict, *)
(* dismissApprovals lists them again, and reviews are submitted at any     *)
(* time.  The steps between the two listings read no listing and are taken *)
(* with the first: the verdict is stale or not.                            *)
(***************************************************************************)
InitConcurrent ==
    /\ pc = "listForVerdict"
    /\ wReviews = <<>>
    /\ wCache = {}
    /\ wSeen = <<>>
    /\ approved_sha = Unset
    /\ review_id = Unset
    /\ wRestored = Null
    /\ wSteps = <<>>
    /\ nLines = <<<<>>, <<>>>>
    /\ nResult = NoNormalized
    /\ diffRequests = <<>>
    /\ mode = "dismiss-stale-reviews"
    /\ token = "token"
    /\ raised = NoneRaised
    /\ action = "synchronize"
    /\ changesBase = "absent"
    /\ payload = [pull_request |-> TRUE, repository |-> "named"]
    /\ diffs_dir = FALSE
    /\ rebaseable = FALSE
    /\ dry_run = FALSE
    /\ workingCopy = "cloned"
    /\ metadata = NoMetadata
    /\ rdStatus = "notRun"
    /\ rdComparison = <<>>
    /\ rdStdout = <<>>
    /\ rdParsed = NoParsed
    /\ rangeDiffResult = "none"
    /\ most_recent_review = NoReview
    /\ reviewed_diff = Null
    /\ current_diff = <<>>
    /\ twoDot = Null
    /\ msg = ""
    /\ calls = <<>>
    /\ dismissed = {}
    /\ dismissMsg = ""
    /\ requests = <<>>
    /\ listed = <<>>
    /\ sent = <<>>
    /\ outcome = "running"
    /\ error = ""
    /\ pLines = <<>>
    /\ pInput = <<>>
    /\ pResult = NoParsed
    /\ rReviews = <<>>
    /\ rEvents = <<>>
    /\ rResponse = Null
    /\ rResult = Returned(Null)

\* review.state of the reviews the platform lists now
StatesNow == [k \in DOMAIN wReviews |-> wReviews[k].state]

\* getMostRecentlyReviewedDiff: getApprovedReviews and the last approval
\* of the listing; then the verdict of dismissIfStale
ListForVerdict ==
    /\ pc = "listForVerdict"
    /\ Call(<<"listReviews">>)
    /\ rReviews' = wReviews
    /\ LET approved_reviews == getApprovedReviews(wReviews)
       IN IF approved_reviews = <<>>
          THEN /\ Throw("Cannot read properties of undefined (reading 'submitted_at')")
               /\ UNCHANGED <<most_recent_review, dismissMsg>>
          ELSE LET latest == approved_reviews[Len(approved_reviews)]
               IN /\ most_recent_review' =
                       [submitted_at |-> latest.submitted_at,
                        commit_id |-> latest.commit_id.some]
                  /\ IF latest.submitted_at = 0
                     THEN /\ Throw("Unable to determine time of approval.")
                          /\ UNCHANGED dismissMsg
                     ELSE \/ /\ Return("NotStale")
                             /\ UNCHANGED dismissMsg
                          \/ /\ dismissMsg' \in {MsgCodeChanged, MsgUnableReviewed}
                             /\ Goto("dismissApprovals")
    /\ UNCHANGED <<eventVars, workingCopy, fastPathVars, reviewed_diff, current_diff,
                   twoDot, msg, dismissed, requests, listed, sent, pLines, pInput,
                   pResult, rEvents, rResponse, rResult, platformVars, jobVars,
                   normalizeVars, repoVars, runVars>>

\* dismissApprovals on the reviews as they are listed when it runs
DismissListedNow ==
    /\ pc = "dismissApprovals"
    /\ DismissApprovalsOver({StatesNow})

NextConcurrent ==
    \/ ReviewSubmitted
    \/ ListForVerdict
    \/ DismissListedNow
    \/ SettleDismissal

SpecConcurrent == InitConcurrent /\ [][NextConcurrent]_vars

(***************************************************************************)
(* The entry point: run() of main.ts, which reads the inputs mode and      *)
(* token, dispatches on mode inside one try, and hands whatever is thrown  *)
(* to core.setFailed.  What checkForApprovals and dismissIfStale do is     *)
(* taken by its end: a return or a throw.                                  *)
(***************************************************************************)
\* values of the input mode: not supplied, the two modes, and another value
Modes == {"", "check-for-approvals", "dismiss-stale-reviews", "other"}

\* a listed review by what checkForApprovals reads of it
ListedReviews == [state : ReviewStates, commit_id : {Null, Some(<<"c", "1">>)}]

\* the reviews of a listing, with their ids
Numbered(listing) ==
    [k \in DOMAIN listing |->
        [id |-> k, state |-> listing[k].state, submitted_at |-> 1,
         commit_id |-> listing[k].commit_id, snapshot_key |-> <<>>]]

\* core.getInput(name, {required: true}) of an input that is empty
NotSupplied(name) == "Input required and not supplied: " \o name

\* errors thrown out of the two modes
ModeErrors == {"listReviews failed", "This action must be run on a pull request."}

\* every caught value reported by its message
FailureMessage_OfAny(thrown) == thrown.message

\* the catch of run(): error.message of an Error, 'Unknown error' otherwise
FailureMessage(thrown) ==
    IF thrown.kind = "Error" THEN thrown.message ELSE "Unknown error"

\* the catch block
Caught(thrown) ==
    /\ raised' = thrown
    /\ Throw(FailureMessage(thrown))

InitRun ==
    /\ pc = "run"
    /\ wReviews \in {Numbered(listing) : listing \in SeqUpTo(ListedReviews, MaxReviews)}
    /\ wCache = {}
    /\ wSeen = <<>>
    /\ approved_sha = Unset
    /\ review_id = Unset
    /\ wRestored = Null
    /\ wSteps = <<>>
    /\ nLines = <<<<>>, <<>>>>
    /\ nResult = NoNormalized
    /\ diffRequests = <<>>
    /\ mode \in Modes
    /\ token \in {"", "token"}
    /\ raised = NoneRaised
    /\ action = "synchronize"
    /\ changesBase = "absent"
    /\ payload = [pull_request |-> TRUE, repository |-> "named"]
    /\ diffs_dir = FALSE
    /\ rebaseable = FALSE
    /\ dry_run = FALSE
    /\ workingCopy = "cloned"
    /\ metadata = NoMetadata
    /\ rdStatus = "notRun"
    /\ rdComparison = <<>>
    /\ rdStdout = <<>>
    /\ rdParsed = NoParsed
    /\ rangeDiffResult = "none"
    /\ most_recent_review = NoReview
    /\ reviewed_diff = Null
    /\ current_diff = <<>>
    /\ twoDot = Null
    /\ msg = ""
    /\ calls = <<>>
    /\ dismissed = {}
    /\ dismissMsg = ""
    /\ requests = <<>>
    /\ listed = <<>>
    /\ sent = <<>>
    /\ outcome = "running"
    /\ error = ""
    /\ pLines = <<>>
    /\ pInput = <<>>
    /\ pResult = NoParsed
    /\ rReviews = <<>>
    /\ rEvents = <<>>
    /\ rResponse = Null
    /\ rResult = Returned(Null)

\* run(): the whole of the try and its catch
Run ==
    /\ pc = "run"
    /\ IF mode = ""
       THEN /\ Caught([kind |-> "Error", message |-> NotSupplied("mode")])
            /\ UNCHANGED <<calls, approved_sha, review_id>>
       ELSE IF token = ""
       THEN /\ Caught([kind |-> "Error", message |-> NotSupplied("token")])
            /\ UNCHANGED <<calls, approved_sha, review_id>>
       ELSE IF mode = "check-for-approvals"
       THEN /\ Call(<<"listReviews">>)
            /\ \/ /\ \E thrown \in [kind : {"Error", "value"}, message : ModeErrors] :
                        Caught(thrown)
                  /\ UNCHANGED <<approved_sha, review_id>>
               \/ LET result == checkForApprovals(wReviews)
                  IN /\ IF result # Null
                        THEN /\ approved_sha' = result.val.approved_sha
                             /\ review_id' = ToDigits(result.val.review_id)
                        ELSE /\ approved_sha' = <<>>
                             /\ review_id' = <<>>
                     /\ Return("Succeeded")
                     /\ UNCHANGED raised
       ELSE IF mode = "dismiss-stale-reviews"
       THEN /\ Call(<<"dismissIfStale">>)
            /\ \/ \E thrown \in [kind : {"Error", "value"}, message : ModeErrors] :
                     Caught(thrown)
               \/ Return("Succeeded") /\ UNCHANGED raised
            /\ UNCHANGED <<approved_sha, review_id>>
       ELSE /\ Return("Succeeded")
            /\ UNCHANGED <<calls, approved_sha, review_id, raised>>
    /\ UNCHANGED <<eventVars, workingCopy, fastPathVars, diffVars, dismissVars,
                   pLines, pInput, pResult, reviewedVars, platformVars, wSeen, wRestored,
                   wSteps, normalizeVars, repoVars, mode, token>>

SpecRun == InitRun /\ [][Run]_vars

(***************************************************************************)
(* Properties.                                                             *)
(***************************************************************************)
DismissInvoked == "dismissApprovals" \in Range(calls)

\* the event passes the trigger filter, stated from the event alone
RelevantEvent ==
    action = "synchronize" \/ (action = "edited" /\ changesBase = "from")

\* every commit pair of the comparison is identical (or there is none)
AllIdentical(c) == \A k \in DOMAIN c : c[k].marker = "="

\* the metadata file holds a version-1 record with both SHAs
ValidMetadata ==
    /\ metadata.kind = "object"
    /\ metadata.version = 1
    /\ metadata.approved_sha
    /\ metadata.merge_base_sha

\* calls made only after the fast path
LaterCalls ==
    {"existsCachedDiff", "readCachedDiff", "listReviews", "listEvents",
     "compareReviewed", "compareCurrent", "existsRepo", "clone", "authSetupGit",
     "fetch", "gitDiff", "writeReviewedDiff", "writeCurrentDiff",
     "dismissApprovals", "dismissReview"}

\* git range-diff succeeded and its output is at hand: the run stands at
\* the end of the fast path or has ended there
RangeDiffAtHand == rdStatus = "ok" /\ rdParsed # NoParsed

\* C1 (pessimism): on a relevant event, a run that ends without an error
\* and without invoking dismissal has proved the match: the range-diff
\* ran and its comparison held only identical pairs (or none), or the
\* reviewed diff is known and equals the final current diff, both
\* normalized.
C1_Pessimism ==
    (pc = "done" /\ RelevantEvent /\ outcome # "Failed" /\ ~DismissInvoked)
        => \/ RangeDiffAtHand /\ AllIdentical(rdComparison)
           \/ reviewed_diff.some /\ reviewed_diff.val = current_diff

\* C2 (trigger filter): once the filter has run, a relevant event is not
\* skipped, and any other event has ended in Skip, successfully, with no
\* collaborator call, no dismissal and nothing read or computed.
C2_TriggerFilter ==
    pc # "start" =>
        IF RelevantEvent
        THEN outcome # "Skip"
        ELSE /\ pc = "done"
             /\ outcome = "Skip"
             /\ error = ""
             /\ calls = <<>>
             /\ dismissed = {}
             /\ metadata = NoMetadata
             /\ rdStatus = "notRun"
             /\ reviewed_diff = Null

C2_Witness ==
    pc = "done" /\ outcome = "Skip" /\ action = "edited" /\ changesBase = "noFrom"

C4_FastPath ==
    (/\ ValidMetadata
     /\ RangeDiffAtHand
     /\ rdStdout = RenderComparison(rdComparison)
     /\ AllIdentical(rdComparison))
        => /\ rangeDiffResult = "not_stale"
           /\ pc \in {"fastPathReturn", "done"}
           /\ pc = "done" => outcome = "FastPathNotStale"
           /\ Range(calls) \cap LaterCalls = {}
           /\ dismissed = {}

C4_Witness ==
    /\ pc = "done"
    /\ outcome = "FastPathNotStale"
    /\ ValidMetadata
    /\ Len(rdComparison) = 1
    /\ AllIdentical(rdComparison)
    /\ rdStdout = RenderComparison(rdComparison)

\* the case of C5: no metadata file, no cached diff, and the compare API
\* failed for base ref...approved commit
C5_Case ==
    /\ metadata.kind \in {"emptyPath", "absent"}
    /\ "existsCachedDiff" \in Range(calls)
    /\ "readCachedDiff" \notin Range(calls)
    /\ "compareReviewed" \in Range(calls)
    /\ ~reviewed_diff.some

C6_NoVerdict ==
    \/ metadata.kind \in {"emptyPath", "absent", "unparseable", "jsonNull"}
    \/ /\ metadata.kind = "object"
       /\ (metadata.version # 1 \/ ~metadata.approved_sha \/ ~metadata.merge_base_sha)
    \/ /\ "getMergeBase" \in Range(calls)
       /\ "rangeDiff" \notin Range(calls)
       /\ pc # "runRangeDiff"
    \/ rdStatus \in {"spawnError", "ENOBUFS", "nonZero"}

\* C6 (fallback is never an error): whenever the fast path can produce no
\* verdict, tryRangeDiffCheck has returned 'fallback' without raising and
\* the run goes on to the reviewed diff, where the verdict is that of
\* the content comparison.
C6_FallbackNeverError ==
    C6_NoVerdict
        => /\ rangeDiffResult = "fallback"
           /\ pc = "done" => "existsCachedDiff" \in Range(calls)
           /\ (pc = "done" /\ outcome # "Failed")
                 => /\ outcome \in {"Stale", "NotStale"}
                    /\ outcome = "Stale"
                         <=> (~reviewed_diff.some \/ reviewed_diff.val # current_diff)

\* C6 without the metadata file that holds the JSON value null
C6_ExceptJsonNull == metadata.kind # "jsonNull" => C6_FallbackNeverError

\* C7 (a stale range-diff is evidence only): after the classifier reports
\* changes the run is not ended by the fast path, a dismissal is invoked
\* only after the current diff was computed and the content comparison
\* found the reviewed diff unknown or different, and a run that finds
\* them equal ends NotStale without dismissal.
C7_StaleIsEvidence ==
    rangeDiffResult = "stale"
        => /\ outcome \notin {"FastPathNotStale", "Skip"}
           /\ DismissInvoked
                 => /\ "compareCurrent" \in Range(calls)
                    /\ ~reviewed_diff.some \/ reviewed_diff.val # current_diff
           /\ (/\ pc = "done"
               /\ outcome # "Failed"
               /\ reviewed_diff.some
               /\ reviewed_diff.val = current_diff)
                 => outcome = "NotStale" /\ ~DismissInvoked

C7_Witness ==
    /\ rangeDiffResult = "stale"
    /\ rdStatus = "ok"
    /\ pc = "done"
    /\ outcome = "NotStale"
    /\ ~DismissInvoked

\* the lines of the parser's input that are commit records it recognises
\* (not indented), with a marker in ms
RecordLines(ms) ==
    {k \in DOMAIN pLines :
        ~LineCatalog[pLines[k]].indented /\ LineCatalog[pLines[k]].marker \in ms}

\* C8 (range-diff verdict): the parser reports stale if and only if some
\* recognised commit record carries a marker other than '='.
C8_StaleIffChanged ==
    pc = "parsed" => (pResult.isStale <=> RecordLines({"!", ">", "<"}) # {})

C8_Witness ==
    /\ pc = "parsed"
    /\ pResult.isStale
    /\ RecordLines({"="}) # {}
    /\ RecordLines({"<"}) # {}
    /\ RecordLines({"!", ">"}) = {}

\* C9 (empty input): a successful range-diff whose output is empty or
\* white space only is classified not stale with the summary
\* 'No changes detected', and the run takes the fast path to
\* FastPathNotStale.
C9_EmptyOutput ==
    (RangeDiffAtHand /\ \A k \in DOMAIN rdStdout : rdStdout[k] \in {" ", "\t", "\n", "\r"})
        => /\ rdParsed = [isStale |-> FALSE, summary |-> <<"No changes detected">>]
           /\ rangeDiffResult = "not_stale"
           /\ pc \in {"fastPathReturn", "done"}
           /\ pc = "done" => outcome = "FastPathNotStale" /\ ~DismissInvoked

C9_Witness ==
    /\ pc = "done"
    /\ outcome = "FastPathNotStale"
    /\ rdStatus = "ok"
    /\ Len(rdStdout) >= 2
    /\ \A k \in DOMAIN rdStdout : rdStdout[k] \in {" ", "\t", "\n", "\r"}

\* the lines of the input that are neither blank nor indented
RECURSIVE Unindented(_)
Unindented(lines) ==
    IF lines = <<>> THEN <<>>
    ELSE (IF LineCatalog[lines[1]].indented \/ LineCatalog[lines[1]].text = <<>>
          THEN <<>> ELSE <<lines[1]>>)
         \o Unindented(SubSeq(lines, 2, Len(lines)))

\* C10 (indented lines are never commit records): the result is that of
\* the input without its blank and indented lines, whatever those lines
\* hold; and one '!' record among '=' records and indented lines gives
\* stale with exactly '1 modified'.
C10_IndentedSkipped ==
    pc = "parsed"
        => /\ pResult = parseRangeDiffOutput(JoinLines(Unindented(pLines)))
           /\ (/\ Cardinality(RecordLines({"!"})) = 1
               /\ \A k \in DOMAIN pLines :
                     \/ k \in RecordLines({"!", "="})
                     \/ LineCatalog[pLines[k]].indented)
                 => pResult = [isStale |-> TRUE,
                               summary |-> <<"Commits changed: ", "1", " modified">>]

C10_Witness ==
    /\ pc = "parsed"
    /\ Len(pLines) = 3
    /\ RecordLines({"="}) = {1}
    /\ RecordLines({"!"}) = {2}
    /\ LineCatalog[pLines[3]].indented
    /\ LineCatalog[pLines[3]].marker = ">"
    /\ pResult.summary = <<"Commits changed: ", "1", " modified">>

\* number of recognised commit records of the parser's input with marker m
MarkerCount(m) == Cardinality(RecordLines({m}))

\* '<count> <category>' for the categories with a count above zero, in the
\* order modified, added, removed, joined by ', '
ListedCategories ==
    LET item(m, what) ==
            IF MarkerCount(m) > 0 THEN <<ToDigits(MarkerCount(m)) \o <<what>>>> ELSE <<>>
        items == item("!", " modified") \o item(">", " added") \o item("<", " removed")
    IN CASE Len(items) = 1 -> items[1]
         [] Len(items) = 2 -> items[1] \o <<", ">> \o items[2]
         [] Len(items) = 3 -> items[1] \o <<", ">> \o items[2] \o <<", ">> \o items[3]
         [] OTHER -> <<>>

\* C11 (range-diff summary): a stale result lists exactly the categories
\* with a count above zero, in the order modified, added, removed, each as
\* '<count> <category>' joined by ', ' (after 'Commits changed: '), the
\* counts being the numbers of records with that marker; a result that is
\* not stale with N > 0 identical records reads 'N identical commit(s)'.
C11_Summary ==
    pc = "parsed"
        => /\ pResult.isStale
                => pResult.summary = <<"Commits changed: ">> \o ListedCategories
           /\ (~pResult.isStale /\ MarkerCount("=") > 0)
                => pResult.summary
                     = ToDigits(MarkerCount("=")) \o <<" identical commit(s)">>

C11_Witness ==
    /\ pc = "parsed"
    /\ MarkerCount("<") = 1
    /\ MarkerCount(">") = 2
    /\ MarkerCount("!") = 0
    /\ pResult.summary = <<"Commits changed: ", "2", " added", ", ", "1", " removed">>

\* C12 (unknown output is no evidence): lines that do not have the shape
\* of a commit record are ignored, so an output that begins with such a
\* line is classified as the comparison printed after it; and an output
\* none of whose lines has that shape is classified not stale with the
\* summary 'No changes detected', on which the run ends FastPathNotStale
\* without content comparison or dismissal.
C12_UnknownOutput ==
    /\ (/\ pc = "fastPathReturn"
        /\ rdStatus = "ok"
        /\ rdStdout = UnknownLine \o RenderComparison(rdComparison))
          => rdParsed = parseRangeDiffOutput(RenderComparison(rdComparison))
    /\ (rdStatus = "ok" /\ rdStdout \in UnknownOutputs)
          => /\ rdParsed = [isStale |-> FALSE, summary |-> <<"No changes detected">>]
             /\ rangeDiffResult = "not_stale"
             /\ pc \in {"fastPathReturn", "done"}
             /\ pc = "done" => /\ outcome = "FastPathNotStale"
                               /\ error = ""
                               /\ Range(calls) \cap LaterCalls = {}

C12_Witness ==
    /\ pc = "done"
    /\ rdStatus = "ok"
    /\ rdStdout \in UnknownOutputs
    /\ Len(SplitLines(rdStdout)) = 3
    /\ outcome = "FastPathNotStale"

\* the calls that reconstruct the reviewed diff from the review history;
\* dismissApprovals lists the reviews again, after it was invoked
ReconstructionCalls ==
    {k \in DOMAIN calls :
        /\ calls[k] \in {"listReviews", "listEvents", "compareReviewed"}
        /\ \A j \in 1..(k - 1) : calls[j] # "dismissApprovals"}

\* C13 (the cached diff is authoritative): when the cached diff file
\* exists its contents are the reviewed diff and no review listing,
\* timeline listing or historical comparison is made to reconstruct it;
\* when the file does not exist the reconstruction starts with the
\* listing of the reviews.
C13_CacheAuthoritative ==
    /\ "readCachedDiff" \in Range(calls)
          => /\ ReconstructionCalls = {}
             /\ reviewed_diff.some
             /\ most_recent_review = NoReview
    /\ (/\ "existsCachedDiff" \in Range(calls)
        /\ "readCachedDiff" \notin Range(calls)
        /\ pc # "listReviews")
          => /\ ReconstructionCalls # {}
             /\ calls[CHOOSE k \in ReconstructionCalls :
                          \A j \in ReconstructionCalls : k <= j] = "listReviews"

C13_Witness ==
    /\ pc = "done"
    /\ "readCachedDiff" \in Range(calls)
    /\ outcome = "Stale"
    /\ "listReviews" \in Range(calls)
    /\ ReconstructionCalls = {}

\* the approvals of the listing, by position
ApprovalsOf(reviews) == {k \in DOMAIN reviews : reviews[k].state = "APPROVED"}

\* the most recent approval: the last one of the listing
LastApproval(reviews) ==
    reviews[CHOOSE k \in ApprovalsOf(reviews) : \A j \in ApprovalsOf(reviews) : j <= k]

\* the timeline holds a base_ref_changed event at or after the time t
BaseChangedSince(events, t) ==
    \E i \in DOMAIN events :
        /\ events[i].event = "base_ref_changed"
        /\ events[i].created_at >= t

FailedInReconstruction ==
    /\ pc = "done"
    /\ outcome = "Failed"
    /\ "existsCachedDiff" \in Range(calls)
    /\ "readCachedDiff" \notin Range(calls)
    /\ "compareCurrent" \notin Range(calls)

\* C15 (a failed reconstruction is never fatal): whichever step of the
\* reconstruction fails, the run is not ended by it; it goes on with the
\* reviewed diff unknown.
C15_NeverFatal == ~FailedInReconstruction

\* C15 for the one failure the code catches: after a failed historical
\* comparison the reviewed diff is unknown and the run goes on to the
\* current diff.
C15_CompareCaught ==
    (/\ "compareReviewed" \in Range(calls)
     /\ ~reviewed_diff.some
     /\ pc \notin {"normalizeReviewed", "currentDiff"})
        => "compareCurrent" \in Range(calls)

\* the version-control operations among the calls made so far
GitCalls(log) == {k \in DOMAIN log : log[k] \in {"clone", "fetch", "gitDiff", "rebase"}}

\* one step of the reconciliation, where the reviewed diff counts as known
\* when known holds: the two-dot diff is started exactly when the reviewed
\* diff is known and differs from the three-dot diff; a two-dot diff that
\* was computed becomes, normalized, the current diff; and from the
\* decision on nothing but the two-dot diff touches the working copy
ReconcileStep(known) ==
    /\ pc = "reconcile"
          => (pc' = "cloneIfNeeded" <=> (known /\ reviewed_diff.val # current_diff))
    /\ (pc = "gitDiff" /\ twoDot'.some)
          => current_diff' = normalizeDiff(twoDot'.val) /\ pc' = "verdict"
    /\ (/\ pc \in {"reconcile", "verdict", "dismissApprovals", "awaitDismissals", "done"}
        /\ pc' # "cloneIfNeeded")
          => GitCalls(calls') = GitCalls(calls)

\* C16 (reconciliation by two-dot diff): the two-dot diff is computed if
\* and only if the reviewed diff is known and differs from the normalized
\* current three-dot diff; computed, its normalized form is the current
\* diff of the verdict; and with equal diffs no version-control operation
\* is performed.
C16_TwoDotIff == [][ReconcileStep(reviewed_diff.some)]_vars

\* C16 with an empty reviewed diff counted as unknown
C16_ExceptEmpty == [][ReconcileStep(reviewed_diff.some /\ reviewed_diff.val # <<>>)]_vars

\* the last call made
LastCall(log) == IF log = <<>> THEN "" ELSE log[Len(log)]

\* one step of the rebase reconciliation
RebaseStep ==
    /\ (pc = "repoDiff" /\ pc' # "done")
          => (pc' = "repoRebase" <=> (reviewed_diff.val # current_diff' /\ rebaseable))
    /\ pc = "repoRebase"
          => /\ calls' = Append(calls, "rebase")
             /\ pc' \in {"repoRediff", "verdictOlder"}
             /\ outcome' = "running"
             /\ current_diff' = current_diff
    /\ (pc = "repoRediff" /\ pc' # "done")
          => /\ calls' = Append(calls, "gitDiff")
             /\ current_diff' = normalizeDiff(twoDot'.val)
             /\ pc' = "verdictOlder"
    /\ "rebase" \in Range(calls')
          => /\ rebaseable
             /\ Cardinality({k \in DOMAIN calls' : calls'[k] = "rebase"}) = 1
    /\ pc' = "repoRediff" => LastCall(calls') = "rebase"

C18_SoftFailure ==
    /\ \A exit \in GitDiffExits, stdout \in DiffTexts :
          TwoDotResult(exit, stdout)
             = IF exit \in {"spawnError", "ENOBUFS", "status2"}
               THEN [some |-> FALSE, val |-> <<>>]
               ELSE [some |-> TRUE, val |-> stdout]
    /\ LastCall(calls) = "gitDiff" => outcome # "Failed"
    /\ ("gitDiff" \in Range(calls) /\ ~twoDot.some)
          => /\ pc \in {"verdict", "dismissApprovals", "awaitDismissals", "done"}
             /\ pc # "verdict" => DismissInvoked /\ dismissMsg = MsgTwoDotFailed
             /\ (pc = "done" /\ outcome # "Stale")
                   => outcome = "Failed" /\ LastCall(calls) \in {"listReviews", "dismissReview"}

C18_Witness ==
    /\ pc = "done"
    /\ "gitDiff" \in Range(calls)
    /\ ~twoDot.some
    /\ outcome = "Stale"
    /\ dismissMsg = MsgTwoDotFailed
    /\ dismissed # {}

\* the message that names the cause of a dismissal, the reviewed diff
\* counting as known when known holds
CauseMessage(known) ==
    IF ~known THEN MsgUnableReviewed
    ELSE IF "gitDiff" \in Range(calls) /\ ~twoDot.some THEN MsgTwoDotFailed
    ELSE MsgCodeChanged

\* C19 (the dismissal message names the cause): every dismissal carries
\* the message of its cause: that the reviewed diff could not be obtained
\* exactly when the reviewed diff is unknown, that the two-dot diff could
\* not be computed exactly when the reviewed diff is known and the
\* two-dot diff failed, and that the code has changed exactly when the
\* reviewed diff is known, every diff was computed and the diffs differ.
C19_MessageNamesCause ==
    DismissInvoked
        => /\ dismissMsg = CauseMessage(reviewed_diff.some)
           /\ dismissMsg = MsgCodeChanged => reviewed_diff.val # current_diff

\* C19 with an empty reviewed diff counted as unknown
C19_ExceptEmpty ==
    DismissInvoked
        => /\ dismissMsg = CauseMessage(reviewed_diff.some /\ reviewed_diff.val # <<>>)
           /\ dismissMsg = MsgCodeChanged => reviewed_diff.val # current_diff

\* C20 (dismissal join): with several dismissal requests issued in
\* parallel, the run is not reported, as a success or as a failure, while
\* a request is still pending; every approved review got its request
\* whatever became of the others; and a failure is raised only when all
\* requests have settled.
C20_Join ==
    pc = "done"
        => /\ DOMAIN requests = dismissed
           /\ \A i \in DOMAIN requests : requests[i] # "pending"

\* C20 for what the code does keep: every approved review got its
\* request before anything was reported, a success is reported only when
\* every request was fulfilled, and a failure of the requests only when
\* one was rejected.
C20_AllAttempted ==
    /\ DOMAIN requests = dismissed
    /\ (pc = "done" /\ outcome = "Stale")
          => \A i \in DOMAIN requests : requests[i] = "fulfilled"
    /\ (pc = "done" /\ error = "dismissReview failed")
          => \E i \in DOMAIN requests : requests[i] = "rejected"

\* the dismissReview requests issued for the review at place i of the listing
RequestsFor(i) == {k \in DOMAIN sent : sent[k].review_id = i}

\* C21 (who is dismissed): every listed review in state APPROVED gets
\* exactly one dismissal request and a review in any other state gets
\* none; every request is for a listed review and carries the one message
\* of the verdict; there are as many dismissReview calls as requests; and
\* requests are issued only on a stale verdict.
C21_Dismissals ==
    /\ \A i \in DOMAIN listed :
         Cardinality(RequestsFor(i)) = (IF listed[i] = "APPROVED" THEN 1 ELSE 0)
    /\ \A k \in DOMAIN sent :
         /\ sent[k].review_id \in DOMAIN listed
         /\ sent[k].message = msg
         /\ \A j \in DOMAIN sent : sent[j].message = sent[k].message
    /\ Len(SelectSeq(calls, LAMBDA c : c = "dismissReview")) = Len(sent)
    /\ sent # <<>> => Differs(reviewed_diff, current_diff)
    /\ (pc \in {"awaitDismissals", "done"} /\ DismissInvoked
          /\ error # "listReviews failed")
         => DOMAIN requests = {i \in DOMAIN listed : listed[i] = "APPROVED"}

\* a stale verdict whose listing holds an approved review after a
\* dismissed one: the one request went to the approved review
C21_Witness ==
    /\ pc = "done"
    /\ outcome = "Stale"
    /\ listed = <<"DISMISSED", "APPROVED">>
    /\ sent = <<[review_id |-> 2, message |-> MsgCodeChanged]>>

\* the check step ran to its end
Checked == pc \in {"restore", "dismiss", "jobDone"}

\* the approvals of the listing the check step got
SeenApprovals == {k \in DOMAIN wSeen : wSeen[k].state = "APPROVED"}

\* the approval the check step reported, by its place in the listing
Reported == {k \in SeenApprovals : ToDigits(wSeen[k].id) = review_id}

\* C22 (most recent approval): the approval reported by the check step is
\* the APPROVED review with the latest submitted_at of the listing,
\* whatever the order of the listing; without an APPROVED review the
\* approved_sha output is the empty string.
C22_LatestApproval ==
    Checked =>
        /\ SeenApprovals = {} => approved_sha = <<>>
        /\ SeenApprovals # {} =>
             \E k \in Reported :
                 /\ approved_sha = OrEmpty(wSeen[k].commit_id)
                 /\ wSeen[k].submitted_at # 0 =>
                      \A j \in SeenApprovals :
                          wSeen[j].submitted_at <= wSeen[k].submitted_at

\* the approvals of the listing stand in the order of their submission
SeenInOrder ==
    \A i, j \in SeenApprovals :
        i < j => wSeen[i].submitted_at <= wSeen[j].submitted_at

\* C22, what the code keeps: the approval reported is the last APPROVED
\* review of the listing, which is the latest one when the listing is in
\* the order of submission; without an APPROVED review both outputs are
\* the empty string.
C22_LastListed ==
    Checked =>
        /\ SeenApprovals = {} => approved_sha = <<>> /\ review_id = <<>>
        /\ SeenApprovals # {} =>
             \E k \in Reported :
                 /\ \A j \in SeenApprovals : j <= k
                 /\ approved_sha = OrEmpty(wSeen[k].commit_id)
                 /\ SeenInOrder =>
                      \A j \in SeenApprovals :
                          wSeen[j].submitted_at <= wSeen[k].submitted_at

\* C29 (at least one approval): the cache restore and the dismiss step run
\* only after the check step gave a non-empty approved_sha; the restore
\* uses that SHA as its key, which is the commit of the approval reported
\* and the key under which the snapshot of that approval was saved, if one
\* was; and the dismiss step runs only when the check step saw an
\* approved review.
C29_AtLeastOneApproval ==
    /\ "restore" \in Range(wSteps) =>
         /\ Checked /\ approved_sha # <<>>
         /\ wRestored = Some(approved_sha)
         /\ \E k \in Reported :
              /\ wSeen[k].commit_id = Some(wRestored.val)
              /\ wSeen[k].snapshot_key \in {<<>>, wRestored.val}
    /\ "restore" \notin Range(wSteps) => wRestored = Null
    /\ "dismiss" \in Range(wSteps) =>
         /\ Checked /\ approved_sha # <<>>
         /\ SeenApprovals # {}
    /\ \A n \in DOMAIN wSteps :
         n <= 3 /\ wSteps[n] = <<"check", "restore", "dismiss">>[n]

\* the job ran its three steps and the restore key is one a snapshot was
\* saved under
C29_Witness ==
    /\ pc = "jobDone"
    /\ wSteps = <<"check", "restore", "dismiss">>
    /\ wRestored.val \in wCache
    /\ \E k \in Reported : wSeen[k].snapshot_key = wRestored.val

\* the kinds of the lines of the first diff, and of the second
KindsOf(lines) == {DiffLineCatalog[lines[k]].kind : k \in DOMAIN lines}

\* C23 (normalization idempotence): normalizing a normalized diff changes
\* nothing, for every diff, those with an index prefix directly followed
\* by another included.
C23_Idempotent ==
    pc = "normalized" => nResult.again = nResult.first

\* C23, what the code keeps: normalization is idempotent on every diff
\* that has no index prefix directly followed by another.
C23_ExceptExposed ==
    (pc = "normalized" /\ "nested" \notin KindsOf(nLines[1]))
        => nResult.again = nResult.first

\* the texts joined by "\n"
RECURSIVE JoinTexts(_)
JoinTexts(texts) ==
    IF texts = <<>> THEN <<>>
    ELSE IF Len(texts) = 1 THEN texts[1]
    ELSE texts[1] \o <<"\n">> \o JoinTexts(SubSeq(texts, 2, Len(texts)))

\* the diff with the text of every index line taken out, mode suffix
\* included, and every other line as it is
IndexLinesOut(lines) ==
    JoinTexts([k \in DOMAIN lines |->
                  IF DiffLineCatalog[lines[k]].kind = "index"
                  THEN <<>>
                  ELSE DiffLineCatalog[lines[k]].text])

\* the diff with every index line cut down to its mode suffix
IndexPrefixesOut(lines) ==
    JoinTexts([k \in DOMAIN lines |->
                  IF DiffLineCatalog[lines[k]].kind = "index"
                  THEN DiffLineCatalog[lines[k]].mode
                  ELSE DiffLineCatalog[lines[k]].text])

\* the two diffs differ in index lines only
OnlyIndexLinesDiffer ==
    \A k \in DOMAIN nLines[1] :
        nLines[1][k] # nLines[2][k]
            => /\ DiffLineCatalog[nLines[1][k]].kind = "index"
               /\ DiffLineCatalog[nLines[2][k]].kind = "index"

\* the two diffs have the same mode suffix in every index line
SameModes ==
    \A k \in DOMAIN nLines[1] :
        DiffLineCatalog[nLines[1][k]].mode = DiffLineCatalog[nLines[2][k]].mode

\* both diffs normalized, neither with an index prefix directly followed
\* by another
PlainPair ==
    /\ pc = "normalized"
    /\ "nested" \notin KindsOf(nLines[1]) \cup KindsOf(nLines[2])

\* C24 (targeted stripping): the text of every index line, mode suffix
\* included, is taken out and every other line is left as it is; two
\* diffs that differ only in index lines (blob ids or mode suffix)
\* normalize to equal texts, and two diffs that differ in another line to
\* unequal texts.
C24_TargetedStripping ==
    PlainPair =>
        /\ nResult.first = IndexLinesOut(nLines[1])
        /\ OnlyIndexLinesDiffer => nResult.first = nResult.second
        /\ ~OnlyIndexLinesDiffer => nResult.first # nResult.second

\* C24, what the code keeps: the prefix "index <hex>..<hex>" of every
\* index line is taken out and its mode suffix stays, every other line is
\* left as it is; two diffs that differ only in the blob ids of index
\* lines normalize to equal texts, and two diffs that differ in another
\* line to unequal texts.
C24_PrefixStripped ==
    PlainPair =>
        /\ nResult.first = IndexPrefixesOut(nLines[1])
        /\ (OnlyIndexLinesDiffer /\ SameModes) => nResult.first = nResult.second
        /\ ~OnlyIndexLinesDiffer => nResult.first # nResult.second

\* place of a working-copy state in absent -> cloned -> fetched
Stage(copy) ==
    CASE copy = "absent" -> 0
      [] copy = "cloned" -> 1
      [] copy = "fetched" -> 2

\* the calls a step adds to the log
Added == SubSeq(calls', Len(calls) + 1, Len(calls'))

Clones(log) == Len(SelectSeq(log, LAMBDA c : c = "clone"))

AtCloneIfNeeded == pc \in {"cloneIfNeeded", "repoCloneIfNeeded"}

\* C25 (working-copy lifecycle): a step never moves the working copy
\* backwards and moves it at most one stage; it leaves absent only by a
\* clone and reaches fetched only by a fetch; a clone is made only when
\* the path does not exist and at most once in a run; clone-if-needed on
\* an existing path makes no clone and leaves the working copy as it is.
C25_Lifecycle ==
    [][ /\ Stage(workingCopy') >= Stage(workingCopy)
        /\ Stage(workingCopy') <= Stage(workingCopy) + 1
        /\ (workingCopy = "absent" /\ workingCopy' # "absent")
             => /\ AtCloneIfNeeded
                /\ "clone" \in Range(Added)
        /\ (workingCopy # "fetched" /\ workingCopy' = "fetched")
             => "fetch" \in Range(Added)
        /\ "clone" \in Range(Added)
             => /\ workingCopy = "absent"
                /\ AtCloneIfNeeded
        /\ Clones(calls') <= 1
        /\ (AtCloneIfNeeded /\ workingCopy # "absent")
             => /\ workingCopy' = workingCopy
                /\ Added = <<"existsRepo">>
      ]_vars

\* a run that cloned the repository and then fetched the two commits
C25_Witness ==
    /\ workingCopy = "fetched"
    /\ Clones(calls) = 1
    /\ "fetch" \in Range(calls)

\* the payload lacks what the run needs, and the reason reported for it
BadPayload ==
    ~payload.pull_request \/ payload.repository \in {"absent", "unnamed"}

PayloadReason ==
    IF payload.repository = "absent" \/ ~payload.pull_request
    THEN "This action must be run on a pull request."
    ELSE "Unable to determine repository name."

\* C26 (fatal configuration errors): on a relevant event whose payload has
\* no pull request, no repository or no repository name, the run, once
\* past its construction step, has ended as failed with that reason and
\* has made no call to the platform, the cache or git and no dismissal.
C26_FatalConfig ==
    (RelevantEvent /\ BadPayload /\ pc \notin {"start", "construct"})
        => /\ pc = "done"
           /\ outcome = "Failed"
           /\ error = PayloadReason
           /\ calls = <<>>
           /\ sent = <<>>
           /\ dismissed = {}
           /\ workingCopy \in {"absent", "cloned"}

\* a run on a synchronize event whose repository has no full name
C26_Witness ==
    /\ pc = "done"
    /\ action = "synchronize"
    /\ payload = [pull_request |-> TRUE, repository |-> "unnamed"]
    /\ error = "Unable to determine repository name."

CompareErrors == {CompareFailed, CompareNotString}

CloneErrors == {"Command failed: gh repo clone", "Command failed: gh auth setup-git"}

FetchErrors == {"Command failed: git fetch"}

\* the step ends the run as failed with one of these messages, composes
\* no dismissal message and leaves the diffs as they are
FailsWith(messages) ==
    /\ pc' = "done"
    /\ outcome' = "Failed"
    /\ error' \in messages
    /\ UNCHANGED <<reviewed_diff, current_diff, twoDot, msg, dismissVars>>

\* C27 (fatal read and working-copy errors): the current three-dot
\* comparison either gives the current diff or ends the run as failed with
\* the error of the comparison; the clone and the fetch before the
\* two-dot diff either succeed or end the run as failed with their error;
\* none of them goes on to the verdict with a diff marked as unavailable,
\* and a run that failed so has issued no dismissal.
C27_FatalReads ==
    [][ /\ pc = "currentDiff"
          => \/ pc' \in {"reconcile", "reconcileOlder"}
             \/ FailsWith(CompareErrors \cup {"This action must be run on a pull request."})
        /\ pc \in {"cloneIfNeeded", "repoCloneIfNeeded"}
          => \/ pc' \in {"fetch", "repoFetch"} /\ workingCopy' # "absent"
             \/ FailsWith(CloneErrors)
        /\ pc \in {"fetch", "repoFetch"}
          => \/ pc' \in {"gitDiff", "repoDiff"} /\ workingCopy' = "fetched"
             \/ FailsWith(FetchErrors)
        /\ error' \in CompareErrors \cup CloneErrors \cup FetchErrors
          => /\ outcome' = "Failed"
             /\ ~DismissInvoked'
             /\ sent' = <<>>
      ]_vars

\* a run that failed at the fetch, with the reviewed diff known
C27_Witness ==
    /\ pc = "done"
    /\ outcome = "Failed"
    /\ error = "Command failed: git fetch"
    /\ Truthy(reviewed_diff)
    /\ ~DismissInvoked

FinalOutcomes == {"Skip", "FastPathNotStale", "Stale", "NotStale", "Failed"}

\* the steps of a run in the order of the code
StepOrder ==
    <<"start", "construct", "loadMetadata", "getMergeBase", "runRangeDiff",
      "fastPathReturn", "genReviewedDiff", "listReviews", "scanEvents",
      "compareReviewed", "normalizeReviewed", "currentDiff", "reconcile",
      "cloneIfNeeded", "fetch", "gitDiff", "verdict", "dismissApprovals",
      "awaitDismissals", "done">>

PositionOf ==
    [step \in Range(StepOrder) |-> CHOOSE n \in DOMAIN StepOrder : StepOrder[n] = step]

Position(step) == PositionOf[step]

Pending(rs) == Cardinality({i \in DOMAIN rs : rs[i] = "pending"})

Times_(log, name) == Cardinality({i \in DOMAIN log : log[i] = name})

\* how often a run may call a collaborator: the reviews are listed for the
\* reviewed diff and for the dismissal, and each listed review is dismissed
\* at most once
CallLimit(c) ==
    IF c = "dismissReview" THEN Len(listed)
    ELSE IF c = "listReviews" THEN 2
    ELSE 1

\* C28 (termination): every run ends, and stays ended, in exactly one of
\* Skip, FastPathNotStale, Stale, NotStale or Failed; every step moves the
\* run forward in the order of the code, or is the settling of one more
\* dismissal request, so that no step is repeated; and every collaborator
\* is called at most once, but for the listing of the reviews (at most
\* twice: for the reviewed diff and for the dismissal) and the dismissal
\* requests (at most one per listed review).
C28_Terminates ==
    /\ <>[](pc = "done" /\ outcome \in FinalOutcomes)
    /\ [](pc # "done" <=> outcome = "running")
    /\ [][ /\ \/ Position(pc') > Position(pc)
              \/ /\ pc' = pc
                 /\ pc \in {"awaitDismissals", "done"}
                 /\ Pending(requests') < Pending(requests)
           /\ pc = "done" => outcome' = outcome /\ error' = error
         ]_vars
    /\ [](\A c \in Range(calls) : Times_(calls, c) <= CallLimit(c))
    /\ [](Len(listed) <= MaxReviews)

\* a run that went through the two-dot diff and dismissed two reviews
C28_Witness ==
    /\ pc = "done"
    /\ outcome = "Stale"
    /\ "rangeDiff" \in Range(calls)
    /\ "gitDiff" \in Range(calls)
    /\ Times_(calls, "listReviews") = 2
    /\ Times_(calls, "dismissReview") = 2
    /\ Pending(requests) = 0

\* the collaborator calls of each stage of a run
MetadataCalls == {"existsMetadata", "readMetadata"}

ReviewedDiffCalls ==
    {"existsCachedDiff", "readCachedDiff", "listReviews", "listEvents",
     "compareReviewed", "writeReviewedDiff"}

WorkingCopyCalls == {"existsRepo", "clone", "authSetupGit", "fetch"}

TwoDotCalls == WorkingCopyCalls \cup {"gitDiff"}

DismissalCalls == {"dismissApprovals", "listReviews", "dismissReview"}

\* whether a call of the set was made before the i-th call
Before(log, i, names) == \E k \in 1..(i - 1) : log[k] \in names

\* the stage of the i-th call; the reviews are listed for the reviewed
\* diff and again by dismissApprovals
CallStage(log, i) ==
    LET c == log[i]
    IN CASE c \in MetadataCalls -> 1
         [] c = "getMergeBase" -> 2
         [] c = "rangeDiff" -> 3
         [] c = "listReviews" ->
                IF Before(log, i, {"dismissApprovals"}) THEN 9 ELSE 4
         [] c \in ReviewedDiffCalls -> 4
         [] c = "compareCurrent" -> 5
         [] c \in WorkingCopyCalls -> 6
         [] c \in {"gitDiff", "rebase"} -> 7
         [] c = "writeCurrentDiff" -> 8
         [] c \in DismissalCalls -> 9
         [] OTHER -> 0

\* C30 (step ordering): the calls of a run are made stage after stage --
\* metadata load, merge-base, range-diff, reviewed-diff reconstruction,
\* three-dot diff, working copy and two-dot diff with the rebase, dismissal
\* -- and no stage is entered over the head of the one it depends on: the
\* range-diff follows the metadata load and the merge-base, the three-dot
\* diff follows a reviewed-diff call, every two-dot call follows the
\* three-dot diff, a rebase follows a two-dot diff, and once dismissal has
\* begun only dismissal calls are made.
C30_StepOrdering ==
    /\ \A i \in DOMAIN calls : CallStage(calls, i) > 0
    /\ \A i \in 1..(Len(calls) - 1) : CallStage(calls, i) <= CallStage(calls, i + 1)
    /\ \A i \in DOMAIN calls :
        /\ calls[i] = "getMergeBase" => Before(calls, i, {"readMetadata"})
        /\ calls[i] = "rangeDiff" => Before(calls, i, {"getMergeBase"})
        /\ calls[i] = "compareCurrent" => Before(calls, i, ReviewedDiffCalls)
        /\ calls[i] \in TwoDotCalls => Before(calls, i, {"compareCurrent"})
        /\ calls[i] = "rebase" => Before(calls, i, {"gitDiff"})
        /\ Before(calls, i, DismissalCalls \ {"listReviews"}) => calls[i] \in DismissalCalls

\* a run through every stage: range-diff, the reviewed diff from the review
\* history, the three-dot and the two-dot diff, and a dismissal
C30_Witness ==
    /\ pc = "done"
    /\ outcome = "Stale"
    /\ {"readMetadata", "getMergeBase", "rangeDiff", "listEvents", "compareReviewed",
        "compareCurrent", "fetch", "gitDiff", "dismissReview"} \subseteq Range(calls)

\* the run of the evaluator with rebase that rebased, diffed again and dismissed
C30_RebaseWitness ==
    /\ pc = "done"
    /\ outcome = "Stale"
    /\ Times_(calls, "gitDiff") = 2
    /\ {"compareReviewed", "compareCurrent", "rebase", "dismissReview"} \subseteq Range(calls)

\* the run reached the verdict with a reviewed diff that is known and empty
KnownEmptyReviewed ==
    /\ pc \in {"dismissApprovals", "awaitDismissals", "done"}
    /\ "compareCurrent" \in Range(calls)
    /\ error \notin {CompareFailed, CompareNotString}
    /\ reviewed_diff = Some(<<>>)

\* C31 (empty diffs are diffs): a reviewed diff that is known and empty is
\* compared like any other -- against an empty current diff the run ends
\* NotStale, and against a non-empty three-dot diff the run goes through
\* the two-dot reconciliation and, when it dismisses, names the code change
\* (or the failed two-dot diff) and never an unknown reviewed diff.
C31_EmptyIsKnown ==
    KnownEmptyReviewed
        => /\ current_diff = <<>> /\ twoDot = Null => outcome = "NotStale"
           /\ DismissInvoked
                => /\ "existsRepo" \in Range(calls)
                   /\ dismissMsg \in {MsgCodeChanged, MsgTwoDotFailed}

\* the first half of C31 alone: empty against empty is NotStale
C31_EmptyEqualsEmpty ==
    (KnownEmptyReviewed /\ current_diff = <<>>)
        => outcome = "NotStale" /\ ~DismissInvoked

\* the lines of the parser's input that have the shape of a commit record
\* with marker m, padded or not
ShapedLines(markers) ==
    {k \in DOMAIN pLines : LineCatalog[pLines[k]].marker \in markers}

\* C33 (padded commit records): an output with a line of the commit-record
\* shape and marker '!', '<' or '>', whatever whitespace precedes it, is
\* parsed as stale.
C33_PaddedRecognised ==
    (pc = "parsed" /\ ShapedLines({"!", "<", ">"}) # {})
        => pResult.isStale

\* C33 for the records that begin in the first column
C33_UnpaddedRecognised ==
    (pc = "parsed" /\ \E k \in ShapedLines({"!", "<", ">"}) : ~LineCatalog[pLines[k]].indented)
        => pResult.isStale

\* C32 (dismissal at most once, and only on Stale): dismissApprovals is
\* invoked at most once in a run, and only on a relevant event after the
\* verdict found the diffs to differ; a run that ended in Skip,
\* FastPathNotStale or NotStale, or that has not invoked it (a run that
\* failed before the verdict among them), has listed no review for
\* dismissal and sent no dismissal request.
C32_DismissOnlyOnStale ==
    /\ Times_(calls, "dismissApprovals") <= 1
    /\ DismissInvoked
        => /\ RelevantEvent
           /\ "compareCurrent" \in Range(calls)
           /\ Differs(reviewed_diff, current_diff)
           /\ pc \in {"dismissApprovals", "awaitDismissals", "done"}
           /\ outcome \in {"running", "Stale", "Failed"}
    /\ outcome \in {"Skip", "FastPathNotStale", "NotStale"} => ~DismissInvoked
    /\ ~DismissInvoked
        => /\ "dismissReview" \notin Range(calls)
           /\ listed = <<>>
           /\ sent = <<>>
           /\ requests = <<>>
           /\ dismissed = {}
    /\ (pc = "done" /\ outcome = "Stale") => DismissInvoked

\* a run that reached Stale and dismissed an approval, by its one invocation
C32_Witness ==
    /\ pc = "done"
    /\ outcome = "Stale"
    /\ RelevantEvent
    /\ Times_(calls, "dismissApprovals") = 1
    /\ dismissed # {}

\* C37 (Skip before configuration errors): an event that fails the trigger
\* filter ends in Skip, successfully and without any call, also when the
\* payload has no pull request, no repository or no repository name.
C37_SkipPrecedence ==
    (pc # "start" /\ ~RelevantEvent /\ BadPayload)
        => /\ pc = "done"
           /\ outcome = "Skip"
           /\ error = ""
           /\ calls = <<>>

\* an opened event without a pull request in its payload, skipped
C37_Witness ==
    /\ pc = "done"
    /\ outcome = "Skip"
    /\ ~payload.pull_request
    /\ payload.repository = "absent"

\* the rebase succeeded and the diff was computed again
Rediffed ==
    /\ Len(diffRequests) = 2
    /\ "rebase" \in Range(calls)

\* C34 (the diff after the rebase): the diff computed after a successful
\* rebase is requested for the same base and another head than the
\* two-dot diff before the rebase.
C34_RebasedHeadDiffed ==
    Rediffed
        => /\ diffRequests[2].base_sha = diffRequests[1].base_sha
           /\ diffRequests[2].head_sha # diffRequests[1].head_sha

\* what holds instead: both diffs name the same two commits, and the
\* second leaves the current diff as the first made it
C34_SamePairDiffed ==
    /\ Rediffed => diffRequests[2] = diffRequests[1]
    /\ (Rediffed /\ error # NullToString) => current_diff = normalizeDiff(twoDot.val)

\* the i-th call follows the clone-if-needed step and a fetch of this run
AfterCloneAndFetch(i) ==
    /\ Before(calls, i, {"existsRepo"})
    /\ Before(calls, i, {"fetch"})

\* C35 (the working copy is fetched before it is read): every range-diff,
\* two-dot diff and rebase of a run follows the clone-if-needed step and a
\* fetch of the same run, and is about to be issued only with the working
\* copy fetched.
C35_FetchedBeforeRead ==
    /\ \A i \in DOMAIN calls :
          calls[i] \in {"rangeDiff", "gitDiff", "rebase"} => AfterCloneAndFetch(i)
    /\ pc \in {"runRangeDiff", "gitDiff", "repoDiff", "repoRebase", "repoRediff"}
          => workingCopy = "fetched"

\* C35 for the two-dot diff and the rebase alone
C35_TwoDotFetched ==
    /\ \A i \in DOMAIN calls :
          calls[i] \in {"gitDiff", "rebase"} => AfterCloneAndFetch(i)
    /\ pc \in {"gitDiff", "repoDiff", "repoRebase", "repoRediff"}
          => workingCopy = "fetched"

\* ids of the approvals of a listing
ApprovedIds(reviews) == {reviews[k].id : k \in {n \in DOMAIN reviews : reviews[n].state = "APPROVED"}}

\* dismissApprovals has issued its requests
RequestsIssued == pc \in {"awaitDismissals", "done"} /\ listed # <<>>

\* C36 (only the evaluated approvals are dismissed): the reviews for which
\* dismissApprovals issues a request are exactly the approvals of the
\* listing the verdict was taken on.
C36_OnlyEvaluatedDismissed ==
    RequestsIssued => dismissed = ApprovedIds(rReviews)

\* what holds instead: the approvals of the verdict's listing are among
\* the dismissed, which are the approvals listed when dismissApprovals ran
C36_ListedAtDismissal ==
    RequestsIssued
        => /\ ApprovedIds(rReviews) \subseteq dismissed
           /\ dismissed = {k \in DOMAIN listed : listed[k] = "APPROVED"}

\* run() has finished as its mode and its catch require
Reported_(noOp) ==
    /\ raised.kind = "Error" => outcome = "Failed" /\ error = raised.message
    /\ raised.kind = "value" => outcome = "Failed" /\ error = "Unknown error"
    /\ raised.kind = "none" => outcome = "Succeeded" /\ error = ""
    /\ approved_sha # Unset => mode = "check-for-approvals"
    /\ (mode = "check-for-approvals" /\ outcome = "Succeeded") => approved_sha # Unset
    /\ noOp => /\ outcome = "Succeeded"
               /\ raised = NoneRaised
               /\ calls = <<>>
               /\ approved_sha = Unset
               /\ review_id = Unset

\* C38 (the entry point) as stated: every run ends reported; a failure
\* carries the message of the Error thrown, or 'Unknown error'; the output
\* approved_sha is set only in check-for-approvals mode; and with any
\* other mode value supplied the run does nothing and succeeds.
C38_AsStated ==
    pc = "done" => Reported_(mode = "other")

\* C38 as amended: the same, with the no-op for any other mode value that
\* is not empty, given a token that is not empty; an input that is empty
\* fails the run with core.getInput's own error.
C38_EntryPoint ==
    pc = "done"
        => /\ Reported_(mode = "other" /\ token # "")
           /\ (mode = "" \/ token = "")
                => /\ outcome = "Failed"
                   /\ error \in {NotSupplied("mode"), NotSupplied("token")}
                   /\ calls = <<>>

\* a run in another mode that did nothing and succeeded
C38_Witness ==
    /\ pc = "done"
    /\ mode = "other"
    /\ token # ""
    /\ outcome = "Succeeded"
    /\ calls = <<>>
    /\ approved_sha = Unset

====
